---- MODULE Spec2Model ----
(***************************************************************************)
(* Wholesale Shop Management (src/app.py): the Create Order Wizard         *)
(* (page_order_wizard) over the Supabase persistence gateway               *)
(* (execute_query).                                                        *)
(*                                                                         *)
(* Every browser session runs the script on its own; st.session_state is   *)
(* per session, the tables behind execute_query are shared by all.  One    *)
(* action below is one script rerun triggered by a widget (a wizard        *)
(* button or form), except the commit of step 5, whose rerun makes several *)
(* separate calls of execute_query: each call is one action, so that the   *)
(* calls of different sessions interleave as the HTTP requests do.         *)
(***************************************************************************)
EXTENDS Integers, Sequences, FiniteSets, TLC

(***************************************************************************)
(* Bounds of the model.                                                    *)
(***************************************************************************)
MaxQty      == 2   \* the Quantity input of the add form is in 1..MaxQty
MaxCartQty  == 2   \* adds are explored while a cart line stays <= MaxCartQty
MaxOrders   == 2   \* commits are explored while orders holds < MaxOrders rows
MaxFailures == 1   \* store calls that raise, per behaviour
MaxEdits    == 1   \* "Edit" buttons pressed, per behaviour
MaxRows     == 2   \* rows of customers and of employees, per behaviour
MaxUsers    == 3   \* rows of users, per behaviour

Sessions  == {"s1", "s2"}
Products  == {1, 2}
\* a cart has at most one line per product (lines 740-755)
MaxCartLen == Cardinality(Products)
\* customer_id and employee_id of the seed rows of customers and employees
Customers == {1, 2}
Employees == {1, 2}

\* unit_price and stock_quantity columns of the products rows (seed data)
SeedUnitPrice == <<5, 7>>
SeedStock     == <<1, 2>>

(***************************************************************************)
(* The inputs the forms are given.                                         *)
(***************************************************************************)
\* "Add up to 10 products to your order" (line 711)
CartHint == 10

\* dt.date.today(), the value the date inputs are drawn with (lines 658, 818, 874)
Today == "d1"

\* the first row of a query result, the option a selectbox is drawn with
\* (None, here 0, when the result is empty: lines 425-427)
FirstOf(ids) == IF ids = {} THEN 0 ELSE CHOOSE i \in ids : \A j \in ids : i <= j

\* transport_form: either text input may be left empty
TransportInputs ==
    { [vehicle_number |-> v, driver_name |-> d, transport_mode |-> "Truck",
       departure_date |-> "d1", arrival_date |-> "d2", t_status |-> "In Transit"] :
      <<v, d>> \in {<<"MH12", "Ram">>, <<"MH12", "">>, <<"", "Ram">>} }

VARIABLES
    \* ---- the deployment -------------------------------------------------
    filterMode,      \* how the client library combines .eq and .neq on one column
    \* ---- the store (Supabase tables) ------------------------------------
    products,        \* product_id -> [unit_price, stock_quantity]
    orders,          \* sequence of rows, order_id = position
    order_items,     \* sequence of rows
    payments,        \* sequence of rows
    transportation,  \* sequence of rows
    \* ---- st.session_state, per session ----------------------------------
    wizard_step,
    order_info,
    cart,
    payment_info,
    transport_info,
    \* ---- the running commit of a session (locals of the rerun) ----------
    pc,              \* "idle" or the next execute_query call of the commit
    order_id,        \* order_result[0]['order_id'], 0 before it is known
    item_idx,        \* position of the for loop in the cart
    current_product, \* stock_quantity read at line 957
    outcome,         \* what the last rerun displayed
    \* ---- history (not program state) ------------------------------------
    stock0,          \* stock_quantity of each product in the initial state
    deducted,        \* order_id -> amount the writes of that commit lowered stock by
    failed,          \* a store call of the session's last commit raised after the Order insert
    sagaDone,        \* a commit of the session succeeded since it last left S1
    failures,        \* store calls that raised so far
    edits,           \* "Edit" buttons pressed so far
    before,          \* the store as the session's last commit found it
    last_add,        \* what the session's last rerun was given, if it was "Add to Cart"
    \* ---- the store and the cache behind the other pages ------------------
    customers,       \* sequence of rows, customer_id = position
    employees,       \* sequence of rows, employee_id = position
    cache,           \* the entry of st.cache_data for cached_query("order_items")
    last_call,       \* history: the last call of execute_query made by a table page
    \* ---- authentication ---------------------------------------------------
    users,           \* sequence of rows, user_id = position
    user,            \* st.session_state.user: the row login_page stored, or NoUser
    last_login       \* history: what the session's last submit of login_form held

storeVars   == <<products, orders, order_items, payments, transportation>>
sessionVars == <<wizard_step, order_info, cart, payment_info, transport_info>>
commitVars  == <<pc, order_id, item_idx, current_product>>
commitHist  == <<stock0, deducted, failed, sagaDone, failures, edits, before>>
histVars    == <<commitHist, last_add>>
adminVars   == <<customers, employees, cache, last_call>>
authVars    == <<users, user, last_login>>
vars == <<filterMode, authVars, adminVars, storeVars, sessionVars, commitVars, outcome,
          histVars>>

(***************************************************************************)
(* Passwords (lines 35-51).  A string is a sequence of characters.          *)
(* hexdigest() gives a string of hex digits that is taken to differ for     *)
(* different inputs: here the hex codes of the characters of the input.     *)
(***************************************************************************)
HexOf(ch) ==
    CASE ch = "a" -> <<"6", "1">>
      [] ch = "b" -> <<"6", "2">>
      [] ch = "$" -> <<"2", "4">>
      [] ch = "0" -> <<"3", "0">>
      [] ch = "1" -> <<"3", "1">>
      [] OTHER    -> <<"3", "f">>

RECURSIVE Sha256Hex(_)
Sha256Hex(str) ==
    IF str = <<>> THEN <<>> ELSE HexOf(Head(str)) \o Sha256Hex(Tail(str))

\* secrets.token_hex(32) (line 37): hex digits
Salts == {<<"0">>, <<"1">>}

\* hash_password (lines 35-39) with the salt drawn
HashPassword(password, salt) ==
    salt \o <<"$">> \o Sha256Hex(password \o salt)

\* stored_hash.split('$', 1) (line 45)
SplitAtFirstDollar(str) ==
    LET i == CHOOSE k \in 1..Len(str) :
                str[k] = "$" /\ \A j \in 1..(k - 1) : str[j] # "$" IN
    [salt |-> SubSeq(str, 1, i - 1), password_hash |-> SubSeq(str, i + 1, Len(str))]

\* verify_password (lines 41-51)
VerifyPassword(password, stored_hash) ==
    IF \E k \in 1..Len(stored_hash) : stored_hash[k] = "$"
    THEN LET parts == SplitAtFirstDollar(stored_hash) IN
         Sha256Hex(password \o parts.salt) = parts.password_hash
    ELSE password = stored_hash

\* the passwords typed into the forms
Passwords == {<<"a">>, <<"b">>, <<"a", "$">>}

Usernames == {"manager", "staff", "new"}

\* 'user' not in st.session_state
NoUser ==
    [user_id |-> 0, username |-> "", password_hash |-> <<>>, role |-> "",
     is_active |-> FALSE, given |-> <<>>]

NoLogin == [username |-> "", password |-> <<>>]

\* the users of the demo credentials (line 102): the Manager's password stored
\* as hash_password gives it, the Staff's as typed.  given is history: the
\* password the row was last given.
SeedUsers ==
    << [user_id |-> 1, username |-> "manager",
        password_hash |-> HashPassword(<<"a">>, <<"0">>),
        role |-> "Manager", is_active |-> TRUE, given |-> <<"a">>],
       [user_id |-> 2, username |-> "staff", password_hash |-> <<"b">>,
        role |-> "Staff", is_active |-> TRUE, given |-> <<"b">>] >>

\* st.session_state.order_info = {} (line 634)
NoOrderInfo ==
    [captured |-> FALSE, customer_id |-> 0, employee_id |-> 0,
     order_date |-> "", status |-> ""]

\* st.session_state.payment_info = {} (line 806)
NoPaymentInfo ==
    [captured |-> FALSE, make_payment |-> FALSE, pay_date |-> "",
     pay_amount |-> 0, pay_mode |-> ""]

\* st.session_state.transport_info = {} (line 859)
NoTransportInfo ==
    [captured |-> FALSE, add_transport |-> FALSE, vehicle_number |-> "",
     driver_name |-> "", transport_mode |-> "", departure_date |-> "",
     arrival_date |-> "", t_status |-> ""]

\* the rows of customers and employees that the seed data hold
SeedRows(ids) == [i \in 1..Cardinality(ids) |-> [id |-> i, name |-> "a"]]

\* the identifiers in the lists that cached_query("customers") and
\* cached_query("employees") return (lines 640-641, 418-424).  Every write to
\* these tables is followed by st.cache_data.clear() in the same rerun (lines
\* 492-494, 519-521), so the cached lists are the rows of the store.
CustomerIds == {customers[i].id : i \in 1..Len(customers)}
EmployeeIds == {employees[i].id : i \in 1..Len(employees)}

\* the rows of products of the seed data
SeedProducts ==
    [p \in Products |-> [unit_price |-> SeedUnitPrice[p], stock_quantity |-> SeedStock[p]]]

\* a store with more products than the hint of line 711 names, one unit each
LargeStoreProducts ==
    [p \in 1..(CartHint + 1) |-> [unit_price |-> 1, stock_quantity |-> 1]]

\* the identifiers of the rows of products
ProductIds == DOMAIN products

\* no entry of st.cache_data for the query
NoCache == [valid |-> FALSE, rows |-> <<>>, raised |-> FALSE]

\* no call of execute_query made by a table page yet
NoCall ==
    [session |-> "", operation |-> "none", table |-> "", id |-> 0,
     found |-> FALSE, raised |-> FALSE, effect |-> FALSE, result |-> <<>>]

\* the last rerun of the session was not a submit of add_product_form
NoAdd ==
    [pid |-> 0, quantity |-> 0, price |-> 0, in_cart |-> 0, max_qty |-> 0,
     accepted |-> FALSE]

\* the number of rows of each table and the stock of each product
StoreSizes ==
    [orders |-> Len(orders), order_items |-> Len(order_items),
     payments |-> Len(payments), transportation |-> Len(transportation),
     stock |-> [p \in Products |-> products[p].stock_quantity]]

InitFrom(product_rows, customer_rows, employee_rows, session_user) ==
    /\ filterMode \in {"and", "replace"}
    /\ users = SeedUsers
    /\ user = [s \in Sessions |-> session_user]
    /\ last_login = [s \in Sessions |-> NoLogin]
    /\ products = product_rows
    /\ stock0 = [p \in Products |-> product_rows[p].stock_quantity]
    /\ orders = <<>>
    /\ order_items = <<>>
    /\ payments = <<>>
    /\ transportation = <<>>
    /\ wizard_step = [s \in Sessions |-> 1]
    /\ order_info = [s \in Sessions |-> NoOrderInfo]
    /\ cart = [s \in Sessions |-> <<>>]
    /\ payment_info = [s \in Sessions |-> NoPaymentInfo]
    /\ transport_info = [s \in Sessions |-> NoTransportInfo]
    /\ pc = [s \in Sessions |-> "idle"]
    /\ order_id = [s \in Sessions |-> 0]
    /\ item_idx = [s \in Sessions |-> 0]
    /\ current_product = [s \in Sessions |-> 0]
    /\ outcome = [s \in Sessions |-> "none"]
    /\ deducted = <<>>
    /\ failed = [s \in Sessions |-> FALSE]
    /\ sagaDone = [s \in Sessions |-> FALSE]
    /\ failures = 0
    /\ edits = 0
    /\ before = [s \in Sessions |-> StoreSizes]
    /\ last_add = [s \in Sessions |-> NoAdd]
    /\ customers = customer_rows
    /\ employees = employee_rows
    /\ cache = NoCache
    /\ last_call = NoCall

\* the store holds the seed data and every session, logged in as the
\* Manager, is at a fresh S1
Init == InitFrom(SeedProducts, SeedRows(Customers), SeedRows(Employees), SeedUsers[1])

\* the same with no customer and no employee in the store yet
InitTable == InitFrom(SeedProducts, <<>>, <<>>, SeedUsers[1])

\* the same with the products of the large store
InitLargeStore ==
    InitFrom(LargeStoreProducts, SeedRows(Customers), SeedRows(Employees), SeedUsers[1])

\* no customer yet, every session at the login page
InitAuthEmpty == InitFrom(SeedProducts, <<>>, SeedRows(Employees), NoUser)

(***************************************************************************)
(* execute_query, operation "select" on products with                      *)
(* eq={"stock_quantity": 0}, neq={"stock_quantity": 0} (line 695).         *)
(* The loops of lines 115-121 put both filters on one query.  A client     *)
(* library that adds every filter as a further query parameter makes them  *)
(* a conjunction, which no row satisfies; one that keeps one parameter per *)
(* column lets the later filter (neq) replace the earlier.  The source     *)
(* pins no version, so the deployment decides (filterMode).                *)
(***************************************************************************)
SelectProductsInStock ==
    IF filterMode = "and"
    THEN { p \in ProductIds : products[p].stock_quantity = 0
                              /\ products[p].stock_quantity # 0 }
    ELSE { p \in ProductIds : products[p].stock_quantity # 0 }

\* prod_map (line 706): the rows of the query result with stock_quantity > 0
ProdMap == { p \in SelectProductsInStock : products[p].stock_quantity > 0 }

\* The rerun gets past the return of line 646.
ReachesStep1 == customers # <<>> /\ employees # <<>>

\* The rerun gets past the return of line 699.
ReachesStep2 == ReachesStep1 /\ SelectProductsInStock # {}

(***************************************************************************)
(* The cart (lines 734-783).                                               *)
(***************************************************************************)
\* next((item for item in cart if item['product_id'] == pid), None), as an index
ExistingItem(c, pid) ==
    IF \E i \in 1..Len(c) : c[i].product_id = pid
    THEN CHOOSE i \in 1..Len(c) :
            /\ c[i].product_id = pid
            /\ \A j \in 1..(i - 1) : c[j].product_id # pid
    ELSE 0

\* lines 747-755 alone: a line is appended whether or not the product has one
CartAddAppend(c, pid, quantity, price) ==
    Append(c, [product_id |-> pid, quantity |-> quantity,
               unit_price |-> price, line_total |-> quantity * price])

\* lines 742-755 with the unit price of the form written to the line found
CartAddRepricing(c, pid, quantity, price) ==
    LET i == ExistingItem(c, pid) IN
    IF i # 0
    THEN [c EXCEPT ![i] =
            [@ EXCEPT !.quantity = @ + quantity,
                      !.unit_price = price,
                      !.line_total = (c[i].quantity + quantity) * price]]
    ELSE Append(c, [product_id |-> pid, quantity |-> quantity,
                    unit_price |-> price, line_total |-> quantity * price])

\* lines 742-755: raise the quantity of the line of the product, or append a line
CartAdd(c, pid, quantity, price) ==
    LET i == ExistingItem(c, pid) IN
    IF i # 0
    THEN [c EXCEPT ![i] =
            [@ EXCEPT !.quantity = @ + quantity,
                      !.line_total = (c[i].quantity + quantity) * c[i].unit_price]]
    ELSE Append(c, [product_id |-> pid, quantity |-> quantity,
                    unit_price |-> price, line_total |-> quantity * price])

\* cart.pop() with no index: the last line goes, whichever button was clicked
CartPopLast(c, i) == SubSeq(c, 1, Len(c) - 1)

\* cart.pop(i) (line 773), i counted from 1
CartPop(c, i) == SubSeq(c, 1, i - 1) \o SubSeq(c, i + 1, Len(c))

RECURSIVE SumLineTotals(_)
\* sum(item['line_total'] for item in cart) (lines 776, 794, 809, 921)
SumLineTotals(c) ==
    IF c = <<>> THEN 0 ELSE c[1].line_total + SumLineTotals(Tail(c))

RECURSIVE SumQuantity(_)
\* the sum of the quantity column of the rows
SumQuantity(rows) ==
    IF rows = <<>> THEN 0 ELSE rows[1].quantity + SumQuantity(Tail(rows))

\* the quantity of the product in the cart, 0 when the cart has no line of it
QuantityInCart(c, pid) ==
    SumQuantity(SelectSeq(c, LAMBDA item : item.product_id = pid))

\* order_basic_info form as it is drawn (lines 657-662): the first customer,
\* the first employee, today and "Pending", whatever order_info holds
OrderInfoDefault ==
    [customer_id |-> FirstOf(CustomerIds), employee_id |-> FirstOf(EmployeeIds),
     order_date |-> Today, status |-> "Pending"]

\* order_basic_info form: submitted as drawn, or with every field changed
OrderInfoInputs ==
    { OrderInfoDefault,
      [customer_id |-> 2, employee_id |-> 1, order_date |-> "d2", status |-> "Delivered"] }

\* payment_form as it is drawn (lines 811-824): "Record Payment Now" checked,
\* today, the cart total and "Cash", whatever payment_info holds
PaymentDefault(s) ==
    [pay_date |-> Today, pay_amount |-> SumLineTotals(cart[s]), pay_mode |-> "Cash"]

\* payment_form: submitted as drawn, or with every field changed
\* (pay_amount has min_value 0.0 and is free otherwise)
PaymentInputs(s) ==
    { PaymentDefault(s),
      [pay_date |-> "d2", pay_amount |-> 0, pay_mode |-> "UPI"] }

\* the Unit Price input: pre-filled with the product's unit_price, editable;
\* raises[pid] holds the amounts the user may raise it by
PriceInputs(pid, raises) == {products[pid].unit_price + d : d \in raises[pid]}

(***************************************************************************)
(* Steps 1-4 of the wizard: one action per button or form submit.          *)
(***************************************************************************)
\* lines 194-196: not stopped at the login page
LoggedIn(s) == user[s] # NoUser

\* a rerun of a page as if lines 194-196 let every session through
IdleWithoutLogin(s) == pc[s] = "idle"

\* a rerun of the session gets to the page and no commit of it is running
Idle(s) == LoggedIn(s) /\ pc[s] = "idle"

\* the test of the role with every user let through
IsManagerAnyRole(s) == LoggedIn(s)

\* is_manager (line 439)
IsManager(s) == user[s].role = "Manager"

\* check_permissions (lines 64-76); "" is required_role=None
CheckPermissions(s, required_role) ==
    /\ LoggedIn(s)
    /\ required_role = "" \/ ~(required_role = "Manager" /\ ~IsManager(s))

\* "Continue to Step 2" without the returns of lines 643-650, with the
\* values of the form whatever the lists hold
S1ContinueAnyId(s, inp) ==
    /\ Idle(s)
    /\ wizard_step[s] = 1
    /\ order_info' = [order_info EXCEPT ![s] =
          [captured |-> TRUE, customer_id |-> inp.customer_id,
           employee_id |-> inp.employee_id, order_date |-> inp.order_date,
           status |-> inp.status]]
    /\ wizard_step' = [wizard_step EXCEPT ![s] = 2]
    /\ outcome' = [outcome EXCEPT ![s] = "none"]
    /\ sagaDone' = [sagaDone EXCEPT ![s] = FALSE]
    /\ UNCHANGED <<filterMode, authVars, adminVars, storeVars, cart, payment_info, transport_info,
                   commitVars, stock0, deducted, failed, failures, edits, before, last_add>>

\* "Continue to Step 2" (lines 666-680)
S1Continue(s, inp) ==
    /\ Idle(s) /\ ReachesStep1
    /\ wizard_step[s] = 1
    /\ inp.customer_id \in CustomerIds /\ inp.employee_id \in EmployeeIds
    /\ order_info' = [order_info EXCEPT ![s] =
          [captured |-> TRUE, customer_id |-> inp.customer_id,
           employee_id |-> inp.employee_id, order_date |-> inp.order_date,
           status |-> inp.status]]
    /\ wizard_step' = [wizard_step EXCEPT ![s] = 2]
    /\ outcome' = [outcome EXCEPT ![s] = "none"]
    /\ sagaDone' = [sagaDone EXCEPT ![s] = FALSE]
    /\ UNCHANGED <<filterMode, authVars, adminVars, storeVars, cart, payment_info, transport_info,
                   commitVars, stock0, deducted, failed, failures, edits, before, last_add>>

\* "Edit Step 1" that also runs the deletions of lines 1004-1006 on the
\* captures of the later steps
EditStep1Discarding(s) ==
    /\ edits < MaxEdits
    /\ edits' = edits + 1
    /\ Idle(s) /\ ReachesStep1
    /\ wizard_step[s] # 1
    /\ wizard_step' = [wizard_step EXCEPT ![s] = 1]
    /\ payment_info' = [payment_info EXCEPT ![s] = NoPaymentInfo]
    /\ transport_info' = [transport_info EXCEPT ![s] = NoTransportInfo]
    /\ last_add' = [last_add EXCEPT ![s] = NoAdd]
    /\ outcome' = [outcome EXCEPT ![s] = "none"]
    /\ UNCHANGED <<filterMode, authVars, adminVars, storeVars, order_info, cart, commitVars,
                   stock0, deducted, failed, sagaDone, failures, before>>

\* "Edit Step 1" (lines 681-688)
EditStep1(s) ==
    /\ edits < MaxEdits
    /\ edits' = edits + 1
    /\ Idle(s) /\ ReachesStep1
    /\ wizard_step[s] # 1
    /\ wizard_step' = [wizard_step EXCEPT ![s] = 1]
    /\ last_add' = [last_add EXCEPT ![s] = NoAdd]
    /\ outcome' = [outcome EXCEPT ![s] = "none"]
    /\ UNCHANGED <<filterMode, authVars, adminVars, storeVars, order_info, cart, payment_info,
                   transport_info, commitVars, stock0, deducted, failed, sagaDone, failures, before>>

\* "Add to Cart" (lines 734-759)
AddToCart(s, pid, quantity, price) ==
    /\ Idle(s) /\ ReachesStep2
    /\ wizard_step[s] = 2
    /\ pid \in ProdMap
    /\ LET max_qty == products[pid].stock_quantity
           c == CartAdd(cart[s], pid, quantity, price) IN
       /\ \A i \in 1..Len(c) : c[i].quantity <= MaxCartQty
       /\ cart' = [cart EXCEPT ![s] = IF quantity <= max_qty THEN c ELSE @]
       /\ last_add' = [last_add EXCEPT ![s] =
             [pid |-> pid, quantity |-> quantity, price |-> price,
              in_cart |-> QuantityInCart(cart[s], pid),
              max_qty |-> max_qty, accepted |-> quantity <= max_qty]]
    /\ outcome' = [outcome EXCEPT ![s] = "none"]
    /\ UNCHANGED <<filterMode, authVars, adminVars, storeVars, wizard_step, order_info, payment_info,
                   transport_info, commitVars, commitHist>>

\* the remove button of a cart line (lines 772-774)
RemoveItem(s, i) ==
    /\ Idle(s) /\ ReachesStep2
    /\ wizard_step[s] = 2
    /\ i \in 1..Len(cart[s])
    /\ cart' = [cart EXCEPT ![s] = CartPop(@, i)]
    /\ last_add' = [last_add EXCEPT ![s] = NoAdd]
    /\ outcome' = [outcome EXCEPT ![s] = "none"]
    /\ UNCHANGED <<filterMode, authVars, adminVars, storeVars, wizard_step, order_info, payment_info,
                   transport_info, commitVars, commitHist>>

\* "Clear Cart" (lines 781-783)
ClearCart(s) ==
    /\ Idle(s) /\ ReachesStep2
    /\ wizard_step[s] = 2
    /\ cart[s] # <<>>
    /\ cart' = [cart EXCEPT ![s] = <<>>]
    /\ last_add' = [last_add EXCEPT ![s] = NoAdd]
    /\ outcome' = [outcome EXCEPT ![s] = "none"]
    /\ UNCHANGED <<filterMode, authVars, adminVars, storeVars, wizard_step, order_info, payment_info,
                   transport_info, commitVars, commitHist>>

\* "Continue to Step 3" drawn outside the test of the cart of line 762
S2ContinueAnyCart(s) ==
    /\ Idle(s) /\ ReachesStep2
    /\ wizard_step[s] = 2
    /\ wizard_step' = [wizard_step EXCEPT ![s] = 3]
    /\ last_add' = [last_add EXCEPT ![s] = NoAdd]
    /\ outcome' = [outcome EXCEPT ![s] = "none"]
    /\ UNCHANGED <<filterMode, authVars, adminVars, storeVars, order_info, cart, payment_info,
                   transport_info, commitVars, commitHist>>

\* "Continue to Step 3" (lines 762, 785-787)
S2Continue(s) ==
    /\ Idle(s) /\ ReachesStep2
    /\ wizard_step[s] = 2
    /\ cart[s] # <<>>
    /\ wizard_step' = [wizard_step EXCEPT ![s] = 3]
    /\ last_add' = [last_add EXCEPT ![s] = NoAdd]
    /\ outcome' = [outcome EXCEPT ![s] = "none"]
    /\ UNCHANGED <<filterMode, authVars, adminVars, storeVars, order_info, cart, payment_info,
                   transport_info, commitVars, commitHist>>

\* "Edit Cart" (lines 790-798)
EditCart(s) ==
    /\ edits < MaxEdits
    /\ edits' = edits + 1
    /\ Idle(s) /\ ReachesStep2
    /\ wizard_step[s] > 2
    /\ cart[s] # <<>>
    /\ wizard_step' = [wizard_step EXCEPT ![s] = 2]
    /\ outcome' = [outcome EXCEPT ![s] = "none"]
    /\ UNCHANGED <<filterMode, authVars, adminVars, storeVars, order_info, cart, payment_info,
                   transport_info, commitVars, stock0, deducted, failed, sagaDone, failures, before, last_add>>

\* payment_form submit that also runs the insert of line 971
S3ContinuePersisting(s, inp) ==
    /\ Idle(s) /\ ReachesStep2
    /\ wizard_step[s] = 3
    /\ payment_info' = [payment_info EXCEPT ![s] =
          [captured |-> TRUE, make_payment |-> TRUE, pay_date |-> inp.pay_date,
           pay_amount |-> inp.pay_amount, pay_mode |-> inp.pay_mode]]
    /\ payments' = Append(payments,
          [order_id |-> 0, payment_date |-> inp.pay_date,
           amount |-> inp.pay_amount, payment_mode |-> inp.pay_mode])
    /\ wizard_step' = [wizard_step EXCEPT ![s] = 4]
    /\ outcome' = [outcome EXCEPT ![s] = "none"]
    /\ UNCHANGED <<filterMode, authVars, adminVars, products, orders, order_items,
                   transportation, order_info, cart, transport_info,
                   commitVars, histVars>>

\* payment_form submit, "Continue to Step 4" (lines 828-836)
S3Continue(s, inp) ==
    /\ Idle(s) /\ ReachesStep2
    /\ wizard_step[s] = 3
    /\ payment_info' = [payment_info EXCEPT ![s] =
          [captured |-> TRUE, make_payment |-> TRUE, pay_date |-> inp.pay_date,
           pay_amount |-> inp.pay_amount, pay_mode |-> inp.pay_mode]]
    /\ wizard_step' = [wizard_step EXCEPT ![s] = 4]
    /\ outcome' = [outcome EXCEPT ![s] = "none"]
    /\ UNCHANGED <<filterMode, authVars, adminVars, storeVars, order_info, cart, transport_info,
                   commitVars, histVars>>

\* a skip of payment that sets the step of line 895 instead of that of line 840
S3SkipToFinalStep(s) ==
    /\ Idle(s) /\ ReachesStep2
    /\ wizard_step[s] = 3
    /\ payment_info' = [payment_info EXCEPT ![s] =
                           [NoPaymentInfo EXCEPT !.captured = TRUE]]
    /\ wizard_step' = [wizard_step EXCEPT ![s] = 5]
    /\ outcome' = [outcome EXCEPT ![s] = "none"]
    /\ UNCHANGED <<filterMode, authVars, adminVars, storeVars, order_info, cart, transport_info,
                   commitVars, histVars>>

\* "Skip Payment - Continue to Step 4" (lines 838-841)
S3Skip(s) ==
    /\ Idle(s) /\ ReachesStep2
    /\ wizard_step[s] = 3
    /\ payment_info' = [payment_info EXCEPT ![s] =
                           [NoPaymentInfo EXCEPT !.captured = TRUE]]
    /\ wizard_step' = [wizard_step EXCEPT ![s] = 4]
    /\ outcome' = [outcome EXCEPT ![s] = "none"]
    /\ UNCHANGED <<filterMode, authVars, adminVars, storeVars, order_info, cart, transport_info,
                   commitVars, histVars>>

\* "Edit Payment" (lines 842-851)
EditPayment(s) ==
    /\ edits < MaxEdits
    /\ edits' = edits + 1
    /\ Idle(s) /\ ReachesStep2
    /\ wizard_step[s] > 3
    /\ wizard_step' = [wizard_step EXCEPT ![s] = 3]
    /\ outcome' = [outcome EXCEPT ![s] = "none"]
    /\ UNCHANGED <<filterMode, authVars, adminVars, storeVars, order_info, cart, payment_info,
                   transport_info, commitVars, stock0, deducted, failed, sagaDone, failures, before, last_add>>

\* transport_form submit, "Continue to Final Step" (lines 880-891)
S4Continue(s, inp) ==
    /\ Idle(s) /\ ReachesStep2
    /\ wizard_step[s] = 4
    /\ transport_info' = [transport_info EXCEPT ![s] =
          [captured |-> TRUE, add_transport |-> TRUE,
           vehicle_number |-> inp.vehicle_number,
           driver_name |-> inp.driver_name,
           transport_mode |-> inp.transport_mode,
           departure_date |-> inp.departure_date,
           arrival_date |-> inp.arrival_date, t_status |-> inp.t_status]]
    /\ wizard_step' = [wizard_step EXCEPT ![s] = 5]
    /\ outcome' = [outcome EXCEPT ![s] = "none"]
    /\ UNCHANGED <<filterMode, authVars, adminVars, storeVars, order_info, cart, payment_info,
                   commitVars, histVars>>

\* "Skip Transportation - Continue to Final Step" (lines 893-896)
S4Skip(s) ==
    /\ Idle(s) /\ ReachesStep2
    /\ wizard_step[s] = 4
    /\ transport_info' = [transport_info EXCEPT ![s] =
                             [NoTransportInfo EXCEPT !.captured = TRUE]]
    /\ wizard_step' = [wizard_step EXCEPT ![s] = 5]
    /\ outcome' = [outcome EXCEPT ![s] = "none"]
    /\ UNCHANGED <<filterMode, authVars, adminVars, storeVars, order_info, cart, payment_info,
                   commitVars, histVars>>

\* "Edit Transportation" (lines 897-906)
EditTransportation(s) ==
    /\ edits < MaxEdits
    /\ edits' = edits + 1
    /\ Idle(s) /\ ReachesStep2
    /\ wizard_step[s] > 4
    /\ wizard_step' = [wizard_step EXCEPT ![s] = 4]
    /\ outcome' = [outcome EXCEPT ![s] = "none"]
    /\ UNCHANGED <<filterMode, authVars, adminVars, storeVars, order_info, cart, payment_info,
                   transport_info, commitVars, stock0, deducted, failed, sagaDone, failures, before, last_add>>

(***************************************************************************)
(* execute_query (lines 108-158).  A call either reaches the store or      *)
(* raises; the except of lines 156-158 turns every exception into the      *)
(* result [].  ok = FALSE is the call that raised.                         *)
(***************************************************************************)
MayRaise(ok) == ok \/ failures < MaxFailures

Raised(ok) == IF ok THEN failures ELSE failures + 1

\* operation "insert" (lines 136-138): the store assigns the identifier
InsertRow(table, data) == Append(table, data)

\* operation "update" of stock_quantity with eq={"product_id": pid} (lines 140-146)
UpdateStockQuantity(pid, new_stock) ==
    [products EXCEPT ![pid].stock_quantity = new_stock]

(***************************************************************************)
(* Step 5, "Create Complete Order" (lines 931-1016).                       *)
(***************************************************************************)
\* order_data (lines 934-939)
OrderData(s, id) ==
    [order_id |-> id,
     customer_id |-> order_info[s].customer_id,
     employee_id |-> order_info[s].employee_id,
     order_date |-> order_info[s].order_date,
     status |-> order_info[s].status]

\* item_data with the unit price in the price column
ItemDataUnitPrice(id, item) ==
    [order_id |-> id, product_id |-> item.product_id,
     quantity |-> item.quantity, price |-> item.unit_price]

\* item_data (lines 948-953)
ItemData(id, item) ==
    [order_id |-> id, product_id |-> item.product_id,
     quantity |-> item.quantity, price |-> item.line_total]

\* the condition of line 964 without the test of the amount
PaymentDueAnyAmount(s) == payment_info[s].make_payment

\* the condition of line 964
PaymentDue(s) == payment_info[s].make_payment /\ payment_info[s].pay_amount > 0

\* payment_data (lines 965-970)
PaymentData(s, id) ==
    [order_id |-> id, payment_date |-> payment_info[s].pay_date,
     amount |-> payment_info[s].pay_amount,
     payment_mode |-> payment_info[s].pay_mode]

\* the condition of lines 975-977 without the test of the driver name
TransportDueAnyDriver(s) ==
    /\ transport_info[s].add_transport
    /\ transport_info[s].vehicle_number # ""

\* the condition of lines 975-977
TransportDue(s) ==
    /\ transport_info[s].add_transport
    /\ transport_info[s].vehicle_number # ""
    /\ transport_info[s].driver_name # ""

\* transport_data (lines 978-986)
TransportData(s, id) ==
    [order_id |-> id,
     vehicle_number |-> transport_info[s].vehicle_number,
     driver_name |-> transport_info[s].driver_name,
     transport_mode |-> transport_info[s].transport_mode,
     departure_date |-> transport_info[s].departure_date,
     arrival_date |-> transport_info[s].arrival_date,
     status |-> transport_info[s].t_status]

\* new_stock (line 958)
NewStock(current, quantity) == current - quantity

\* the button of line 931: the rerun renders steps 1-4 and enters the try
CreateCompleteOrder(s) ==
    /\ Idle(s) /\ ReachesStep2
    /\ wizard_step[s] = 5
    /\ Len(orders) < MaxOrders
    /\ pc' = [pc EXCEPT ![s] = "insert_order"]
    /\ order_id' = [order_id EXCEPT ![s] = 0]
    /\ item_idx' = [item_idx EXCEPT ![s] = 0]
    /\ current_product' = [current_product EXCEPT ![s] = 0]
    /\ outcome' = [outcome EXCEPT ![s] = "none"]
    /\ failed' = [failed EXCEPT ![s] = FALSE]
    /\ before' = [before EXCEPT ![s] = StoreSizes]
    /\ UNCHANGED <<filterMode, authVars, adminVars, storeVars, sessionVars, stock0, deducted,
                   sagaDone, failures, edits, last_add>>

\* lines 940-943 without the test of line 942: the loop of line 946 is
\* entered whatever the insert returned
InsertOrderUnchecked(s) ==
    /\ pc[s] = "insert_order"
    /\ \E ok \in BOOLEAN :
          /\ MayRaise(ok)
          /\ failures' = Raised(ok)
          /\ orders' = IF ok THEN InsertRow(orders, OrderData(s, Len(orders) + 1))
                            ELSE orders
          /\ deducted' = IF ok THEN Append(deducted, 0) ELSE deducted
          /\ order_id' = [order_id EXCEPT ![s] = IF ok THEN Len(orders) + 1 ELSE 0]
    /\ item_idx' = [item_idx EXCEPT ![s] = 1]
    /\ pc' = [pc EXCEPT ![s] = "insert_item"]
    /\ UNCHANGED <<filterMode, authVars, adminVars, products, order_items, payments,
                   transportation, sessionVars, current_product, outcome,
                   stock0, failed, sagaDone, edits, before, last_add>>

\* lines 940-943 and 1011-1012
InsertOrder(s) ==
    /\ pc[s] = "insert_order"
    /\ \E ok \in BOOLEAN :
          /\ MayRaise(ok)
          /\ failures' = Raised(ok)
          /\ IF ok
             THEN /\ orders' = InsertRow(orders, OrderData(s, Len(orders) + 1))
                  /\ deducted' = Append(deducted, 0)
                  /\ order_id' = [order_id EXCEPT ![s] = Len(orders) + 1]
                  /\ item_idx' = [item_idx EXCEPT ![s] = 1]
                  /\ pc' = [pc EXCEPT ![s] =
                               IF cart[s] = <<>> THEN "insert_payment"
                                                 ELSE "insert_item"]
                  /\ UNCHANGED outcome
             ELSE /\ outcome' = [outcome EXCEPT ![s] = "no_order_id"]
                  /\ pc' = [pc EXCEPT ![s] = "idle"]
                  /\ UNCHANGED <<orders, deducted, order_id, item_idx>>
    /\ UNCHANGED <<filterMode, authVars, adminVars, products, order_items, payments, transportation,
                   sessionVars, current_product, stock0, failed, sagaDone, edits, before, last_add>>

\* line 954: the result of the insert is not looked at
InsertOrderItem(s) ==
    /\ pc[s] = "insert_item"
    /\ \E ok \in BOOLEAN :
          /\ MayRaise(ok)
          /\ failures' = Raised(ok)
          /\ order_items' =
                IF ok THEN InsertRow(order_items, ItemData(order_id[s], cart[s][item_idx[s]]))
                      ELSE order_items
          /\ failed' = [failed EXCEPT ![s] = @ \/ ~ok]
    /\ pc' = [pc EXCEPT ![s] = "select_product"]
    /\ UNCHANGED <<filterMode, authVars, adminVars, products, orders, payments, transportation,
                   sessionVars, order_id, item_idx, current_product, outcome,
                   stock0, deducted, sagaDone, edits, before, last_add>>

\* line 957: [0] of an empty result raises, which lines 1014-1016 catch
SelectProduct(s) ==
    /\ pc[s] = "select_product"
    /\ \E ok \in BOOLEAN :
          /\ MayRaise(ok)
          /\ failures' = Raised(ok)
          /\ IF ok
             THEN /\ current_product' = [current_product EXCEPT ![s] =
                        products[cart[s][item_idx[s]].product_id].stock_quantity]
                  /\ pc' = [pc EXCEPT ![s] = "update_stock"]
                  /\ UNCHANGED <<outcome, failed>>
             ELSE /\ outcome' = [outcome EXCEPT ![s] = "exception"]
                  /\ failed' = [failed EXCEPT ![s] = TRUE]
                  /\ pc' = [pc EXCEPT ![s] = "idle"]
                  /\ UNCHANGED current_product
    /\ UNCHANGED <<filterMode, authVars, adminVars, storeVars, sessionVars, order_id, item_idx,
                   stock0, deducted, sagaDone, edits, before, last_add>>

\* lines 958-961 with the loop of line 946 left after the first item
UpdateStockLeavingLoop(s) ==
    /\ pc[s] = "update_stock"
    /\ LET item == cart[s][item_idx[s]]
           new_stock == NewStock(current_product[s], item.quantity) IN
       \E ok \in BOOLEAN :
          /\ MayRaise(ok)
          /\ failures' = Raised(ok)
          /\ products' = IF ok THEN UpdateStockQuantity(item.product_id, new_stock)
                               ELSE products
          /\ deducted' =
                IF ok THEN [deducted EXCEPT ![order_id[s]] =
                               @ + (products[item.product_id].stock_quantity - new_stock)]
                      ELSE deducted
          /\ failed' = [failed EXCEPT ![s] = @ \/ ~ok]
    /\ item_idx' = [item_idx EXCEPT ![s] = @ + 1]
    /\ pc' = [pc EXCEPT ![s] = "insert_payment"]
    /\ UNCHANGED <<filterMode, authVars, adminVars, orders, order_items, payments, transportation,
                   sessionVars, order_id, current_product, outcome, stock0, sagaDone, edits, before, last_add>>

\* lines 958-961: the result of the update is not looked at
UpdateStock(s) ==
    /\ pc[s] = "update_stock"
    /\ LET item == cart[s][item_idx[s]]
           new_stock == NewStock(current_product[s], item.quantity) IN
       \E ok \in BOOLEAN :
          /\ MayRaise(ok)
          /\ failures' = Raised(ok)
          /\ products' = IF ok THEN UpdateStockQuantity(item.product_id, new_stock)
                               ELSE products
          /\ deducted' =
                IF ok THEN [deducted EXCEPT ![order_id[s]] =
                               @ + (products[item.product_id].stock_quantity - new_stock)]
                      ELSE deducted
          /\ failed' = [failed EXCEPT ![s] = @ \/ ~ok]
    /\ item_idx' = [item_idx EXCEPT ![s] = @ + 1]
    /\ pc' = [pc EXCEPT ![s] =
                 IF item_idx[s] < Len(cart[s]) THEN "insert_item" ELSE "insert_payment"]
    /\ UNCHANGED <<filterMode, authVars, adminVars, orders, order_items, payments, transportation,
                   sessionVars, order_id, current_product, outcome, stock0, sagaDone, edits, before, last_add>>

\* lines 963-971
InsertPayment(s) ==
    /\ pc[s] = "insert_payment"
    /\ \E ok \in BOOLEAN :
          /\ MayRaise(ok)
          /\ ~PaymentDue(s) => ok
          /\ failures' = Raised(ok)
          /\ payments' =
                IF PaymentDue(s) /\ ok
                THEN InsertRow(payments, PaymentData(s, order_id[s]))
                ELSE payments
          /\ failed' = [failed EXCEPT ![s] = @ \/ ~ok]
    /\ pc' = [pc EXCEPT ![s] = "insert_transportation"]
    /\ UNCHANGED <<filterMode, authVars, adminVars, products, orders, order_items, transportation,
                   sessionVars, order_id, item_idx, current_product, outcome,
                   stock0, deducted, sagaDone, edits, before, last_add>>

\* lines 973-1010: the last insert, then the success message
InsertTransportation(s) ==
    /\ pc[s] = "insert_transportation"
    /\ \E ok \in BOOLEAN :
          /\ MayRaise(ok)
          /\ ~TransportDue(s) => ok
          /\ failures' = Raised(ok)
          /\ transportation' =
                IF TransportDue(s) /\ ok
                THEN InsertRow(transportation, TransportData(s, order_id[s]))
                ELSE transportation
          /\ failed' = [failed EXCEPT ![s] = @ \/ ~ok]
    /\ outcome' = [outcome EXCEPT ![s] = "success"]
    /\ sagaDone' = [sagaDone EXCEPT ![s] = TRUE]
    /\ cache' = NoCache
    /\ pc' = [pc EXCEPT ![s] = "idle"]
    /\ UNCHANGED <<filterMode, authVars, customers, employees, last_call, products, orders, order_items, payments,
                   sessionVars, order_id, item_idx, current_product,
                   stock0, deducted, edits, before, last_add>>

\* order_total of the cart display (line 776)
OrderTotal(s) == SumLineTotals(cart[s])

\* the summary of lines 993-1000: the number of products, and whether a
\* payment and a transportation record are listed
SummaryItems(s) == Len(cart[s])

SummaryPayment(s) == payment_info[s].make_payment

SummaryTransport(s) == transport_info[s].add_transport

\* "Create Another Order" (lines 1003-1007) is drawn inside the branch of the
\* button of line 931.  Its click starts a rerun in which that outer button
\* reads False, so lines 1004-1007 are not reached: the rerun only redraws.
CreateAnotherOrder(s) ==
    /\ Idle(s) /\ ReachesStep2
    /\ outcome[s] = "success"
    /\ outcome' = [outcome EXCEPT ![s] = "none"]
    /\ UNCHANGED <<filterMode, authVars, adminVars, storeVars, sessionVars, commitVars, histVars>>

\* the widgets that take the saga forward, with the inputs the forms are given
SagaWidgets(s, raises) ==
    \/ \E inp \in OrderInfoInputs : S1Continue(s, inp)
    \/ \E pid \in Products, quantity \in 1..MaxQty :
          \E price \in PriceInputs(pid, raises) : AddToCart(s, pid, quantity, price)
    \/ \E i \in 1..MaxCartLen : RemoveItem(s, i)
    \/ ClearCart(s)
    \/ S2Continue(s)
    \/ \E inp \in PaymentInputs(s) : S3Continue(s, inp)
    \/ S3Skip(s)
    \/ \E inp \in TransportInputs : S4Continue(s, inp)
    \/ S4Skip(s)
    \/ CreateCompleteOrder(s)
    \/ CreateAnotherOrder(s)

\* the buttons that take the wizard back to a completed step
EditWidgets(s) ==
    \/ EditStep1(s)
    \/ EditCart(s)
    \/ EditPayment(s)
    \/ EditTransportation(s)

\* the calls of execute_query that a running commit of the session makes
CommitCalls(s) ==
    \/ InsertOrder(s)
    \/ InsertOrderItem(s)
    \/ SelectProduct(s)
    \/ UpdateStock(s)
    \/ InsertPayment(s)
    \/ InsertTransportation(s)

(***************************************************************************)
(* Spec: one session at the wizard, every widget; the Unit Price input is   *)
(* left as pre-filled.                                                     *)
(***************************************************************************)
Next == SagaWidgets("s1", <<{0}, {0}>>) \/ EditWidgets("s1") \/ CommitCalls("s1")

Spec == Init /\ [][Next]_vars

(***************************************************************************)
(* SpecSaga: one session that goes through the saga without the Edit       *)
(* buttons, any number of times; the Unit Price of the first product may   *)
(* be raised.                                                              *)
(***************************************************************************)
NextSaga == SagaWidgets("s1", <<{0, 1}, {0}>>) \/ CommitCalls("s1")

SpecSaga == Init /\ [][NextSaga]_vars

(***************************************************************************)
(* SpecWizard: one session at the wizard, every widget and every Edit      *)
(* button, up to the commit of its first order and on from there; every    *)
(* store call of the commit reaches the store.                             *)
(***************************************************************************)
\* the widgets of the session; "Create Complete Order" while the store has no order
FirstOrderWidgets(s) ==
    \/ \E inp \in OrderInfoInputs : S1Continue(s, inp)
    \/ \E pid \in Products, quantity \in 1..MaxQty :
          AddToCart(s, pid, quantity, products[pid].unit_price)
    \/ \E i \in 1..MaxCartLen : RemoveItem(s, i)
    \/ ClearCart(s)
    \/ S2Continue(s)
    \/ \E inp \in PaymentInputs(s) : S3Continue(s, inp)
    \/ S3Skip(s)
    \/ \E inp \in TransportInputs : S4Continue(s, inp)
    \/ S4Skip(s)
    \/ orders = <<>> /\ CreateCompleteOrder(s)
    \/ CreateAnotherOrder(s)

\* the calls of execute_query of a running commit, none of which raises
CommitCallsReachStore(s) ==
    \/ InsertOrder(s) /\ failures' = failures
    \/ InsertOrderItem(s) /\ failures' = failures
    \/ SelectProduct(s) /\ failures' = failures
    \/ UpdateStock(s) /\ failures' = failures
    \/ InsertPayment(s) /\ failures' = failures
    \/ InsertTransportation(s) /\ failures' = failures

NextWizard ==
    FirstOrderWidgets("s1") \/ EditWidgets("s1") \/ CommitCallsReachStore("s1")

SpecWizard == Init /\ [][NextWizard]_vars

(***************************************************************************)
(* SpecReach: one session that only goes forward, from a fresh S1 to its    *)
(* first commit; no call raises.                                           *)
(***************************************************************************)
ForwardWidgets(s) ==
    \/ \E inp \in OrderInfoInputs : S1Continue(s, inp)
    \/ \E pid \in Products, quantity \in 1..MaxQty :
          AddToCart(s, pid, quantity, products[pid].unit_price)
    \/ S2Continue(s)
    \/ \E inp \in PaymentInputs(s) : S3Continue(s, inp)
    \/ S3Skip(s)
    \/ \E inp \in TransportInputs : S4Continue(s, inp)
    \/ S4Skip(s)
    \/ orders = <<>> /\ CreateCompleteOrder(s)

NextReach == ForwardWidgets("s1") \/ CommitCallsReachStore("s1")

SpecReach == Init /\ [][NextReach]_vars

(***************************************************************************)
(* SpecCart: one session at the cart of step 2; the Unit Price of either   *)
(* product may be raised.                                                  *)
(***************************************************************************)
CartWidgets(s) ==
    \/ S1Continue(s, OrderInfoDefault)
    \/ \E pid \in Products, quantity \in 1..MaxQty :
          \E price \in PriceInputs(pid, <<{0, 1}, {0, 1}>>) :
             AddToCart(s, pid, quantity, price)
    \/ \E i \in 1..MaxCartLen : RemoveItem(s, i)
    \/ ClearCart(s)

NextCart == CartWidgets("s1")

SpecCart == Init /\ [][NextCart]_vars

(***************************************************************************)
(* SpecLargeCart: one session at the cart of step 2 of the large store; it  *)
(* adds single units, the products in the order of their identifiers, and  *)
(* removes any line.                                                       *)
(***************************************************************************)
LargeCartWidgets(s) ==
    \/ S1Continue(s, OrderInfoDefault)
    \/ \E pid \in ProductIds :
          /\ \A i \in 1..Len(cart[s]) : cart[s][i].product_id < pid
          /\ AddToCart(s, pid, 1, products[pid].unit_price)
    \/ \E i \in 1..(CartHint + 1) : RemoveItem(s, i)
    \/ ClearCart(s)

NextLargeCart == LargeCartWidgets("s1")

SpecLargeCart == InitLargeStore /\ [][NextLargeCart]_vars

(***************************************************************************)
(* SpecRace: two sessions, each ordering single units of the first         *)
(* product; the calls of their commits interleave.                         *)
(***************************************************************************)
RaceWidgets(s) ==
    \/ \E inp \in OrderInfoInputs : S1Continue(s, inp)
    \/ AddToCart(s, 1, 1, products[1].unit_price)
    \/ S2Continue(s)
    \/ S3Skip(s)
    \/ S4Skip(s)
    \/ CreateCompleteOrder(s)

NextRace == \E s \in Sessions : RaceWidgets(s) \/ CommitCalls(s)

SpecRace == Init /\ [][NextRace]_vars

(***************************************************************************)
(* SpecRaceQty: two sessions, each ordering the second product in one add  *)
(* of any quantity; the calls of their commits interleave.                 *)
(***************************************************************************)
RaceQtyWidgets(s) ==
    \/ \E inp \in OrderInfoInputs : S1Continue(s, inp)
    \/ \E quantity \in 1..MaxQty : AddToCart(s, 2, quantity, products[2].unit_price)
    \/ S2Continue(s)
    \/ S3Skip(s)
    \/ S4Skip(s)
    \/ CreateCompleteOrder(s)

NextRaceQty == \E s \in Sessions : RaceQtyWidgets(s) \/ CommitCalls(s)

SpecRaceQty == Init /\ [][NextRaceQty]_vars

(***************************************************************************)
(* The table pages (page_table, lines 433-548) and the operations of        *)
(* execute_query they call.  A row's identifier is its position: the store *)
(* numbers the rows as it receives them and no operation removes one.      *)
(***************************************************************************)
Tables == {"customers", "employees"}

\* the values the Add and Edit forms are given for the name of a row
Names(T) == IF T = "customers" THEN {"a", "b"} ELSE {"a"}

TableRows(T) == IF T = "customers" THEN customers ELSE employees

RowIds(rows) == {rows[i].id : i \in 1..Len(rows)}

\* operation "select" (lines 111-134): the rows, or [] when the call raised
ExecuteSelect(rows, ok) ==
    [store |-> rows, done |-> ok, result |-> IF ok THEN rows ELSE <<>>]

\* a select with eq on the identifier
SelectById(rows, id) == SelectSeq(rows, LAMBDA r : r.id = id)

\* operation "insert" (lines 136-138): the new row, or [] when the call raised
ExecuteInsert(rows, data, ok) ==
    LET row == [id |-> Len(rows) + 1, name |-> data.name] IN
    [store  |-> IF ok THEN InsertRow(rows, row) ELSE rows,
     done   |-> ok,
     result |-> IF ok THEN <<row>> ELSE <<>>]

\* operation "update" (lines 140-146): the rows the filter matched, changed;
\* a filter that matches no row is no exception and gives []
ExecuteUpdate(rows, id, data, ok) ==
    LET hit == ok /\ id \in RowIds(rows)
        row == [id |-> id, name |-> data.name] IN
    [store  |-> IF hit THEN [rows EXCEPT ![id] = row] ELSE rows,
     done   |-> hit,
     result |-> IF hit THEN <<row>> ELSE <<>>]

\* operation "delete" (lines 148-154): the query is built from
\* supabase.table(table) with no call of .delete(), so no row is removed; the
\* table builder has neither filters nor .execute(), which raises, and
\* lines 156-158 give []
ExecuteDelete(rows, id) ==
    [store |-> rows, done |-> FALSE, result |-> <<>>]

\* what the call did, for the properties: found, the identifier was a row's
\* when the call was made; raised, lines 156-158 ran; effect, the store did
\* what the operation asks for
Call(s, operation, T, id, rows, raised, done) ==
    [session |-> s, operation |-> operation, table |-> T, id |-> id,
     found |-> id \in RowIds(rows), raised |-> raised,
     effect |-> done.done, result |-> done.result]

SetTable(T, rows) ==
    /\ customers' = IF T = "customers" THEN rows ELSE customers
    /\ employees' = IF T = "employees" THEN rows ELSE employees

\* a run of the page: the rows are read and drawn (line 456)
TableView(s, T) ==
    /\ Idle(s)
    /\ \E ok \in BOOLEAN :
          /\ MayRaise(ok)
          /\ failures' = Raised(ok)
          /\ last_call' = Call(s, "select", T, 0, TableRows(T), ~ok,
                               ExecuteSelect(TableRows(T), ok))
    /\ outcome' = [outcome EXCEPT ![s] = "none"]
    /\ UNCHANGED <<filterMode, authVars, customers, employees, cache, storeVars, sessionVars,
                   commitVars, stock0, deducted, failed, sagaDone, edits, before, last_add>>

\* "Create" of the Add form (lines 483-497)
TableCreate(s, T, name) ==
    /\ Idle(s)
    /\ Len(TableRows(T)) < MaxRows
    /\ \E ok \in BOOLEAN :
          /\ MayRaise(ok)
          /\ failures' = Raised(ok)
          /\ LET done == ExecuteInsert(TableRows(T), [name |-> name], ok) IN
                /\ SetTable(T, done.store)
                /\ last_call' = Call(s, "insert", T, 0, TableRows(T), ~ok, done)
    /\ outcome' = [outcome EXCEPT ![s] = "created"]
    /\ cache' = NoCache
    /\ UNCHANGED <<filterMode, authVars, storeVars, sessionVars, commitVars,
                   stock0, deducted, failed, sagaDone, edits, before, last_add>>

\* "Update" of the Edit form for a record of the rows drawn (lines 499-528)
TableUpdate(s, T, id, name) ==
    /\ Idle(s) /\ IsManager(s)
    /\ id \in RowIds(TableRows(T))
    /\ \E ok \in BOOLEAN :
          /\ MayRaise(ok)
          /\ failures' = Raised(ok)
          /\ LET done == ExecuteUpdate(TableRows(T), id, [name |-> name], ok) IN
                /\ SetTable(T, done.store)
                /\ last_call' = Call(s, "update", T, id, TableRows(T), ~ok, done)
    /\ outcome' = [outcome EXCEPT ![s] = "updated"]
    /\ cache' = NoCache
    /\ UNCHANGED <<filterMode, authVars, storeVars, sessionVars, commitVars,
                   stock0, deducted, failed, sagaDone, edits, before, last_add>>

\* "Confirm Delete" for a record of the rows drawn (lines 531-548)
TableDelete(s, T, id) ==
    /\ Idle(s) /\ IsManager(s)
    /\ id \in RowIds(TableRows(T))
    /\ LET done == ExecuteDelete(TableRows(T), id) IN
          /\ SetTable(T, done.store)
          /\ last_call' = Call(s, "delete", T, id, TableRows(T), TRUE, done)
    /\ outcome' = [outcome EXCEPT ![s] = "deleted"]
    /\ cache' = NoCache
    /\ UNCHANGED <<filterMode, authVars, storeVars, sessionVars, commitVars, histVars>>

\* execute_query(table, operation="update", data=..., eq={pk: id}) with any
\* identifier
ExecuteQueryUpdate(T, id, name) ==
    /\ \E ok \in BOOLEAN :
          /\ MayRaise(ok)
          /\ failures' = Raised(ok)
          /\ LET done == ExecuteUpdate(TableRows(T), id, [name |-> name], ok) IN
                /\ SetTable(T, done.store)
                /\ last_call' = Call("", "update", T, id, TableRows(T), ~ok, done)
    /\ UNCHANGED <<filterMode, authVars, cache, storeVars, sessionVars, commitVars, outcome,
                   stock0, deducted, failed, sagaDone, edits, before, last_add>>

\* the value render_field gives for a reference (lines 416-430): None, here
\* 0, when the target table has no row, the pre-selected first row otherwise
ReferenceDefault(ids) == FirstOf(ids)

\* "Create" of the Add form of the order_items page as the form is drawn
\* (lines 483-497 with the fields of lines 404-430: the references as
\* ReferenceDefault gives them, 0 for the "int" and the "number")
TableCreateOrderItem(s) ==
    /\ Idle(s)
    /\ Len(order_items) < MaxRows
    /\ LET row == [order_id |-> ReferenceDefault({orders[i].order_id : i \in 1..Len(orders)}),
                   product_id |-> ReferenceDefault(Products),
                   quantity |-> 0, price |-> 0] IN
       \E ok \in BOOLEAN :
          /\ MayRaise(ok)
          /\ failures' = Raised(ok)
          /\ order_items' = IF ok THEN InsertRow(order_items, row) ELSE order_items
          /\ last_call' = [session |-> s, operation |-> "insert", table |-> "order_items",
                           id |-> 0, found |-> FALSE, raised |-> ~ok, effect |-> ok,
                           result |-> IF ok THEN <<row>> ELSE <<>>]
    /\ outcome' = [outcome EXCEPT ![s] = "created"]
    /\ cache' = NoCache
    /\ UNCHANGED <<filterMode, authVars, customers, employees, products, orders, payments,
                   transportation, sessionVars, commitVars, stock0, deducted, failed,
                   sagaDone, edits, before, last_add>>

\* the table pages of a Manager, and the first step of the wizard
TableWidgets(s) ==
    \/ \E T \in Tables : TableView(s, T)
    \/ \E T \in Tables : \E name \in Names(T) : TableCreate(s, T, name)
    \/ \E T \in Tables : \E id \in 1..MaxRows : \E name \in Names(T) :
          TableUpdate(s, T, id, name)
    \/ \E T \in Tables : \E id \in 1..MaxRows : TableDelete(s, T, id)
    \/ TableCreateOrderItem(s)
    \/ \E inp \in OrderInfoInputs : S1Continue(s, inp)
    \/ EditStep1(s)

(***************************************************************************)
(* SpecTable: a store with no customer and no employee yet; one session at  *)
(* the table pages and at the first step of the wizard, and update calls   *)
(* of execute_query with any identifier.                                   *)
(***************************************************************************)
NextTable ==
    \/ TableWidgets("s1")
    \/ \E T \in Tables : \E id \in 1..(MaxRows + 1) : \E name \in Names(T) :
          ExecuteQueryUpdate(T, id, name)

SpecTable == InitTable /\ [][NextTable]_vars

(***************************************************************************)
(* SpecStep1: the same store; one session that adds and deletes customers  *)
(* and employees at their pages and goes between them and the first step    *)
(* of the wizard.                                                          *)
(***************************************************************************)
NextStep1 ==
    \/ \E T \in Tables : \E name \in Names(T) : TableCreate("s1", T, name)
    \/ \E T \in Tables : \E id \in 1..MaxRows : TableDelete("s1", T, id)
    \/ \E inp \in OrderInfoInputs : S1Continue("s1", inp)
    \/ EditStep1("s1")

SpecStep1 == InitTable /\ [][NextStep1]_vars

(***************************************************************************)
(* Login, logout, User Management and the bulk import.                     *)
(***************************************************************************)
\* authenticate_user (lines 53-62): the first active row with the username,
\* if the password verifies against it; None, here NoUser, otherwise and
\* when the query raised
AuthenticateUser(username, password, ok) ==
    LET data == SelectSeq(users, LAMBDA r : r.username = username /\ r.is_active) IN
    IF ok /\ data # <<>> /\ VerifyPassword(password, data[1].password_hash)
    THEN data[1]
    ELSE NoUser

\* "Login" of login_form (lines 78-94); the rerun draws a page with no message
Login(s, username, password) ==
    /\ ~LoggedIn(s) /\ pc[s] = "idle"
    /\ \E ok \in BOOLEAN :
          /\ MayRaise(ok)
          /\ failures' = Raised(ok)
          /\ user' = [user EXCEPT ![s] = AuthenticateUser(username, password, ok)]
    /\ last_login' = [last_login EXCEPT ![s] =
                          [username |-> username, password |-> password]]
    /\ outcome' = [outcome EXCEPT ![s] = "none"]
    /\ UNCHANGED <<filterMode, users, adminVars, storeVars, sessionVars, commitVars,
                   stock0, deducted, failed, sagaDone, edits, before, last_add>>

\* "Logout" (lines 98-102, 207-208)
Logout(s) ==
    /\ Idle(s)
    /\ user' = [user EXCEPT ![s] = NoUser]
    /\ last_login' = [last_login EXCEPT ![s] = NoLogin]
    /\ UNCHANGED <<filterMode, users, adminVars, storeVars, sessionVars, commitVars,
                   outcome, histVars>>

\* "Create User" (lines 555-557, 569-593): the password goes to password_hash
\* as typed; is_active is not sent, the store's default decides
AddUser(s, username, password, role) ==
    /\ Idle(s) /\ CheckPermissions(s, "Manager")
    /\ Len(users) < MaxUsers
    /\ \E ok \in BOOLEAN, active \in BOOLEAN :
          /\ MayRaise(ok)
          /\ failures' = Raised(ok)
          /\ users' =
                IF ok
                THEN InsertRow(users,
                        [user_id |-> Len(users) + 1, username |-> username,
                         password_hash |-> password, role |-> role,
                         is_active |-> active, given |-> password])
                ELSE users
    /\ outcome' = [outcome EXCEPT ![s] = "created"]
    /\ cache' = NoCache
    /\ UNCHANGED <<filterMode, user, last_login, customers, employees, last_call,
                   storeVars, sessionVars, commitVars,
                   stock0, deducted, failed, sagaDone, edits, before, last_add>>

\* "Deactivate" / "Activate" of the selected user (lines 555-557, 603-610)
ToggleActive(s, id) ==
    /\ Idle(s) /\ CheckPermissions(s, "Manager")
    /\ id \in 1..Len(users)
    /\ \E ok \in BOOLEAN :
          /\ MayRaise(ok)
          /\ failures' = Raised(ok)
          /\ users' = IF ok THEN [users EXCEPT ![id].is_active = ~@] ELSE users
    /\ outcome' = [outcome EXCEPT ![s] = "updated"]
    /\ cache' = NoCache
    /\ UNCHANGED <<filterMode, user, last_login, customers, employees, last_call,
                   storeVars, sessionVars, commitVars,
                   stock0, deducted, failed, sagaDone, edits, before, last_add>>

\* "Reset Password" of the selected user (lines 555-557, 613-620): the new
\* password goes to password_hash as typed
ResetPassword(s, id, new_password) ==
    /\ Idle(s) /\ CheckPermissions(s, "Manager")
    /\ id \in 1..Len(users)
    /\ new_password # <<>>
    /\ \E ok \in BOOLEAN :
          /\ MayRaise(ok)
          /\ failures' = Raised(ok)
          /\ users' = IF ok
                      THEN [users EXCEPT ![id].password_hash = new_password,
                                         ![id].given = new_password]
                      ELSE users
    /\ outcome' = [outcome EXCEPT ![s] = "updated"]
    /\ UNCHANGED <<filterMode, user, last_login, adminVars, storeVars, sessionVars,
                   commitVars, stock0, deducted, failed, sagaDone, edits, before, last_add>>

\* the import button of the bulk page for a file of one row (lines 1023-1025,
\* 1143-1169)
BulkImport(s, T, name) ==
    /\ Idle(s) /\ CheckPermissions(s, "Manager")
    /\ Len(TableRows(T)) < MaxRows
    /\ \E ok \in BOOLEAN :
          /\ MayRaise(ok)
          /\ failures' = Raised(ok)
          /\ SetTable(T, ExecuteInsert(TableRows(T), [name |-> name], ok).store)
    /\ outcome' = [outcome EXCEPT ![s] = "imported"]
    /\ cache' = NoCache
    /\ UNCHANGED <<filterMode, authVars, last_call, storeVars, sessionVars, commitVars,
                   stock0, deducted, failed, sagaDone, edits, before, last_add>>

(***************************************************************************)
(* SpecAuth: a store with no customer yet; one session that starts at the  *)
(* login page, logs in as the Manager or as the Staff user and out again,  *)
(* and uses the Customers page, the bulk import and User Management.       *)
(***************************************************************************)
AuthWidgets(s) ==
    \/ \E username \in Usernames, password \in {<<"a">>, <<"b">>} :
          Login(s, username, password)
    \/ Logout(s)
    \/ TableView(s, "customers")
    \/ TableCreate(s, "customers", "a")
    \/ \E id \in 1..MaxRows : TableUpdate(s, "customers", id, "b")
    \/ \E id \in 1..MaxRows : TableDelete(s, "customers", id)
    \/ BulkImport(s, "customers", "b")
    \/ AddUser(s, "new", <<"a">>, "Staff")
    \/ \E id \in 1..MaxUsers : ToggleActive(s, id)

NextAuth == AuthWidgets("s1")

SpecAuth == InitAuthEmpty /\ [][NextAuth]_vars

\* C35: a session whose user is not a Manager changes and removes no row of
\* an entity table and changes nothing of the users, and the update and the
\* delete of the table pages, the bulk import and the operations of User
\* Management are enabled for no session whose role is not Manager.
C35_ManagerOnlyMutation ==
    /\ [](\A s \in Sessions :
            (ENABLED (\/ \E id \in 1..MaxRows : TableUpdate(s, "customers", id, "b")
                      \/ \E id \in 1..MaxRows : TableDelete(s, "customers", id)
                      \/ BulkImport(s, "customers", "b")
                      \/ \E role \in {"Staff", "Manager"} : AddUser(s, "new", <<"a">>, role)
                      \/ \E id \in 1..MaxUsers : ToggleActive(s, id)
                      \/ \E id \in 1..MaxUsers : ResetPassword(s, id, <<"a">>)))
            => user[s].role = "Manager")
    /\ [][(\A s \in Sessions : user[s].role # "Manager")
            => /\ users' = users
               /\ employees' = employees
               /\ Len(customers') >= Len(customers)
               /\ \A i \in 1..Len(customers) : customers'[i] = customers[i]
               /\ \A s \in Sessions : outcome'[s] \notin {"updated", "deleted", "imported"}
                                            \/ outcome'[s] = outcome[s]]_vars

\* the Staff user is logged in and has added a customer on the Customers page
C35_Witness ==
    /\ user["s1"].role = "Staff"
    /\ outcome["s1"] = "created"
    /\ last_call.session = "s1" /\ last_call.operation = "insert" /\ last_call.effect
    /\ customers # <<>>

\* C36: a session with no user reads and changes nothing of the store and of
\* its pages; a session gets a user only as an active row of users with the
\* username typed whose stored password verifies the password typed; Logout
\* leaves the session with no user.
C36_NothingWithoutLogin ==
    [][/\ (\A s \in Sessions : ~LoggedIn(s))
            => UNCHANGED <<users, adminVars, storeVars>>
       /\ \A s \in Sessions :
            /\ ~LoggedIn(s)
                 => /\ UNCHANGED <<wizard_step[s], cart[s], pc[s]>>
                    /\ outcome'[s] = "none" \/ outcome'[s] = outcome[s]
            /\ (LoggedIn(s)' /\ user'[s] # user[s])
                 => \E i \in 1..Len(users) :
                       /\ users[i] = user'[s]
                       /\ users[i].is_active
                       /\ users[i].username = last_login'[s].username
                       /\ VerifyPassword(last_login'[s].password, users[i].password_hash)
            /\ Logout(s) => ~LoggedIn(s)']_vars

\* the user made by the Manager has logged in after the Manager's logout and
\* has added a customer
C36_Witness ==
    /\ user["s1"].username = "new"
    /\ outcome["s1"] = "created"
    /\ last_call.session = "s1" /\ last_call.operation = "insert" /\ last_call.effect

(***************************************************************************)
(* SpecPassword: the Manager creates users and resets passwords, with any  *)
(* of the passwords, logs out, and the login form is tried.                *)
(***************************************************************************)
PasswordWidgets(s) ==
    \/ \E password \in Passwords : AddUser(s, "new", password, "Staff")
    \/ \E id \in 1..MaxUsers : \E password \in Passwords : ResetPassword(s, id, password)
    \/ \E id \in 1..MaxUsers : ToggleActive(s, id)
    \/ Logout(s)
    \/ \E username \in Usernames, password \in Passwords : Login(s, username, password)

NextPassword == PasswordWidgets("s1")

SpecPassword == Init /\ [][NextPassword]_vars

(***************************************************************************)
(* cached_query (lines 163-165) and the Dashboard's read of order_items     *)
(* through it (line 263).  st.cache_data keeps the value execute_query     *)
(* returned, [] of a call that raised included (raised says so), until the *)
(* entry is 60 seconds old or st.cache_data.clear() runs.                  *)
(***************************************************************************)
CachedQuery(rows, ok) ==
    IF cache.valid
    THEN [cache |-> cache, raised |-> cache.raised, result |-> cache.rows]
    ELSE [cache  |-> [valid |-> TRUE, rows |-> ExecuteSelect(rows, ok).result,
                      raised |-> ~ok],
          raised |-> ~ok,
          result |-> ExecuteSelect(rows, ok).result]

\* the session opens the Dashboard (lines 263-264)
DashboardView(s) ==
    /\ Idle(s)
    /\ \E ok \in BOOLEAN :
          /\ cache.valid => ok
          /\ MayRaise(ok)
          /\ failures' = Raised(ok)
          /\ LET read == CachedQuery(order_items, ok) IN
                /\ cache' = read.cache
                /\ last_call' = [session |-> s, operation |-> "cached_select",
                                 table |-> "order_items", id |-> 0, found |-> FALSE,
                                 raised |-> read.raised, effect |-> ~read.raised,
                                 result |-> read.result]
    /\ outcome' = [outcome EXCEPT ![s] = "none"]
    /\ UNCHANGED <<filterMode, authVars, customers, employees, storeVars, sessionVars, commitVars,
                   stock0, deducted, failed, sagaDone, edits, before, last_add>>

\* ttl=60 (line 163): the entry is dropped
CacheExpire ==
    /\ cache.valid
    /\ cache' = NoCache
    /\ UNCHANGED <<filterMode, authVars, customers, employees, last_call, storeVars, sessionVars,
                   commitVars, outcome, histVars>>

(***************************************************************************)
(* SpecCache: one session that orders single units of the first product    *)
(* and looks at the Dashboard between its commits.                         *)
(***************************************************************************)
NextCache ==
    \/ RaceWidgets("s1")
    \/ CommitCalls("s1")
    \/ DashboardView("s1")
    \/ CacheExpire

SpecCache == Init /\ [][NextCache]_vars

(***************************************************************************)
(* Properties.                                                             *)
(***************************************************************************)
\* the rows a table received after it held n rows
RowsSince(table, n) == SubSeq(table, n + 1, Len(table))

ItemsOfOrder(id) == SelectSeq(order_items, LAMBDA r : r.order_id = id)

ItemsOfProduct(pid) == SelectSeq(order_items, LAMBDA r : r.product_id = pid)

\* the session's commit has ended and its messages are still on the page
CommitEnded(s) == pc[s] = "idle" /\ outcome[s] \in {"success", "exception"}

\* C1: in every reachable state every product's stock_quantity is >= 0.
C1_StockNeverNegative ==
    \A p \in Products : products[p].stock_quantity >= 0

\* C2: when a commit has ended and one of its store calls failed after the
\* Order row was inserted, the store holds nothing of that order: no Order
\* row, no OrderItem row and no stock deduction made by it.
C2_NoPartialCommit ==
    \A s \in Sessions :
        (pc[s] = "idle" /\ failed[s] /\ order_id[s] # 0) =>
            /\ \A i \in 1..Len(orders) : orders[i].order_id # order_id[s]
            /\ ItemsOfOrder(order_id[s]) = <<>>
            /\ deducted[order_id[s]] = 0

\* C3: when two sessions each commit a cart of 1 unit of the same product,
\* both commits starting while its stock_quantity is 1, they do not both
\* end with every store call succeeded and the success message.
C3_LastUnitSoldOnce ==
    \A p \in Products :
        ~ \A s \in Sessions :
              /\ before[s].stock[p] = 1
              /\ Len(cart[s]) = 1
              /\ cart[s][1].product_id = p /\ cart[s][1].quantity = 1
              /\ pc[s] = "idle" /\ outcome[s] = "success" /\ ~failed[s]

\* C4: for every Order whose commit has ended, the quantities of its
\* OrderItem rows add up to the amount by which its commit lowered stock.
C4_ItemsMatchDeduction ==
    \A id \in 1..Len(orders) :
        (\A s \in Sessions : order_id[s] = id => pc[s] = "idle") =>
            SumQuantity(ItemsOfOrder(id)) = deducted[id]

\* C5: when no commit is running and no store call has failed, each
\* product's stock_quantity is its initial stock minus the quantities of
\* the OrderItem rows of that product.
C5_NoLostDeduction ==
    ((\A s \in Sessions : pc[s] = "idle") /\ failures = 0) =>
        \A p \in Products :
            products[p].stock_quantity = stock0[p] - SumQuantity(ItemsOfProduct(p))

\* C6: when every store call succeeded, a commit with payment skipped and
\* transport skipped has created one Order with the S1 capture, one
\* OrderItem per cart line with price = quantity x unit_price, lowered each
\* product's stock by the quantity of its cart line, and created no Payment
\* and no Transportation row.
C6_CommitWithoutPaymentAndTransport ==
    \A s \in Sessions :
        ( /\ pc[s] = "idle" /\ outcome[s] = "success" /\ ~failed[s]
          /\ ~payment_info[s].make_payment
          /\ ~transport_info[s].add_transport ) =>
            /\ RowsSince(orders, before[s].orders) =
                  << [order_id |-> order_id[s],
                      customer_id |-> order_info[s].customer_id,
                      employee_id |-> order_info[s].employee_id,
                      order_date |-> order_info[s].order_date,
                      status |-> order_info[s].status] >>
            /\ order_id[s] = before[s].orders + 1
            /\ RowsSince(order_items, before[s].order_items) =
                  [i \in 1..Len(cart[s]) |->
                      [order_id |-> order_id[s],
                       product_id |-> cart[s][i].product_id,
                       quantity |-> cart[s][i].quantity,
                       price |-> cart[s][i].quantity * cart[s][i].unit_price]]
            /\ \A p \in Products :
                  products[p].stock_quantity =
                      before[s].stock[p] - QuantityInCart(cart[s], p)
            /\ RowsSince(payments, before[s].payments) = <<>>
            /\ RowsSince(transportation, before[s].transportation) = <<>>

\* a commit of a cart of two lines, one with quantity 2, both skipped, succeeded
C6_Witness ==
    \E s \in Sessions :
        /\ pc[s] = "idle" /\ outcome[s] = "success" /\ ~failed[s]
        /\ payment_info[s].captured /\ ~payment_info[s].make_payment
        /\ transport_info[s].captured /\ ~transport_info[s].add_transport
        /\ Len(cart[s]) = 2
        /\ \E i \in 1..2 : cart[s][i].quantity = 2

\* C7: a commit inserts a Payment row only if payment was not skipped and
\* the captured amount is > 0, and it does insert one when no store call
\* failed; the row is the only one, it has the captured amount and mode and
\* the order_id of the Order of the same commit.
C7_PaymentIffCapturedAndPositive ==
    \A s \in Sessions :
        (pc[s] # "idle" \/ CommitEnded(s)) =>
            LET new == RowsSince(payments, before[s].payments)
                due == payment_info[s].make_payment /\ payment_info[s].pay_amount > 0
            IN  /\ new # <<>> =>
                      /\ due
                      /\ new = << [order_id |-> order_id[s],
                                   payment_date |-> payment_info[s].pay_date,
                                   amount |-> payment_info[s].pay_amount,
                                   payment_mode |-> payment_info[s].pay_mode] >>
                      /\ order_id[s] = before[s].orders + 1
                /\ (due /\ outcome[s] = "success" /\ ~failed[s]) => new # <<>>

\* a successful commit has inserted a Payment row
C7_Witness ==
    \E s \in Sessions :
        /\ pc[s] = "idle" /\ outcome[s] = "success" /\ ~failed[s]
        /\ payment_info[s].make_payment /\ payment_info[s].pay_amount > 0
        /\ Len(payments) = before[s].payments + 1

\* C8: a commit inserts a Transportation row only if transport was not
\* skipped and the captured vehicle number and driver name are both
\* non-empty, and it does insert one when no store call failed; its order_id
\* is that of the Order of the same commit.
C8_TransportIffCapturedAndNamed ==
    \A s \in Sessions :
        (pc[s] # "idle" \/ CommitEnded(s)) =>
            LET new == RowsSince(transportation, before[s].transportation)
                due == /\ transport_info[s].add_transport
                       /\ transport_info[s].vehicle_number # ""
                       /\ transport_info[s].driver_name # ""
            IN  /\ new # <<>> =>
                      /\ due
                      /\ Len(new) = 1
                      /\ new[1].order_id = order_id[s]
                      /\ new[1].vehicle_number = transport_info[s].vehicle_number
                      /\ new[1].driver_name = transport_info[s].driver_name
                      /\ order_id[s] = before[s].orders + 1
                /\ (due /\ outcome[s] = "success" /\ ~failed[s]) => new # <<>>

\* a successful commit has inserted a Transportation row
C8_Witness ==
    \E s \in Sessions :
        /\ pc[s] = "idle" /\ outcome[s] = "success" /\ ~failed[s]
        /\ transport_info[s].add_transport
        /\ Len(transportation) = before[s].transportation + 1

\* C9: after a commit that succeeded, the session's cart is empty, its
\* order_info, payment_info and transport_info are cleared and its wizard
\* step is 1.
C9_ClearedAfterSuccess ==
    \A s \in Sessions :
        (pc[s] = "idle" /\ outcome[s] = "success" /\ ~failed[s]) =>
            /\ cart[s] = <<>>
            /\ order_info[s] = NoOrderInfo
            /\ payment_info[s] = NoPaymentInfo
            /\ transport_info[s] = NoTransportInfo
            /\ wizard_step[s] = 1

\* C10: a session whose commit succeeded inserts no further Order and
\* deducts no further stock before it has left S1 again.
C10_OneOrderPerSaga ==
    \A s \in Sessions :
        sagaDone[s] => pc[s] \in {"idle", "insert_order"}

\* C11: when a commit has ended with the success message and the order id,
\* every store call it made succeeded: the Order insert, every OrderItem
\* insert, every stock update, and the Payment and Transportation inserts
\* that were due.
C11_SuccessOnlyIfEveryWriteSucceeded ==
    \A s \in Sessions :
        (pc[s] = "idle" /\ outcome[s] = "success") => ~failed[s]

\* the lines of the cart that hold the product
LinesOf(c, pid) == {i \in 1..Len(c) : c[i].product_id = pid}

\* C12: in every reachable state no two lines of a cart have the same
\* product_id; and an accepted add of quantity q2 of a product that the cart
\* holds with quantity q1 leaves the number of lines as it was and leaves
\* exactly one line of the product, of quantity q1 + q2 (an accepted add of
\* a product the cart does not hold leaves exactly one line of it, of the
\* quantity added).
C12_OneLinePerProduct ==
    /\ [](\A s \in Sessions : \A p \in Products :
             Cardinality(LinesOf(cart[s], p)) <= 1)
    /\ [][\A s \in Sessions :
             (cart'[s] # cart[s] /\ last_add'[s].accepted) =>
                 LET p  == last_add'[s].pid
                     q1 == QuantityInCart(cart[s], p)
                     q2 == last_add'[s].quantity
                 IN  /\ q1 > 0 => Len(cart'[s]) = Len(cart[s])
                     /\ Cardinality(LinesOf(cart'[s], p)) = 1
                     /\ \A i \in LinesOf(cart'[s], p) :
                           cart'[s][i].quantity = q1 + q2
                     /\ \A r \in Products \ {p} :
                           QuantityInCart(cart'[s], r) = QuantityInCart(cart[s], r)]_vars

\* an add of a product that the cart held already has been accepted, the
\* cart holding a line of the other product as well
C12_Witness ==
    \E s \in Sessions :
        /\ last_add[s].accepted /\ last_add[s].in_cart > 0
        /\ Len(cart[s]) = 2
        /\ QuantityInCart(cart[s], last_add[s].pid) =
              last_add[s].in_cart + last_add[s].quantity

\* C13: an add is rejected whenever the quantity the cart already holds of
\* the product plus the quantity being added exceeds the stock of the
\* product that the rerun read; so after an accepted add the quantity of
\* the line of the product is <= that stock.
C13_AddRejectedBeyondStock ==
    \A s \in Sessions :
        LET a == last_add[s] IN
        a.pid # 0 =>
            /\ a.in_cart + a.quantity > a.max_qty => ~a.accepted
            /\ a.accepted => QuantityInCart(cart[s], a.pid) <= a.max_qty

\* C14: the commit step that follows the re-read of a cart line's product
\* (line 957) compares the quantity of the line with the stock read: when
\* the quantity is greater, the commit ends with an error and the store
\* keeps the stock_quantity it had; otherwise the value written, if the
\* update reaches the store, is stock - quantity.
C14_StockCheckedAtCommit ==
    [][\A s \in Sessions :
          (pc[s] = "update_stock" /\ pc'[s] # "update_stock") =>
              LET item == cart[s][item_idx[s]]
                  pid  == item.product_id
              IN  IF item.quantity > current_product[s]
                  THEN /\ products' = products
                       /\ pc'[s] = "idle"
                       /\ outcome'[s] \in {"exception", "no_order_id"}
                  ELSE products'[pid].stock_quantity \in
                          {products[pid].stock_quantity,
                           current_product[s] - item.quantity}]_vars

\* C15: no step of any commit, in any interleaving of the commits of the
\* sessions, stores a stock_quantity larger than the one the store held
\* immediately before that step.
C15_StockNeverRises ==
    [][\A p \in Products :
          products'[p].stock_quantity <= products[p].stock_quantity]_vars

\* C16: whenever a session is in step 2 or later, the products its page
\* offers for adding are exactly the products of the store with
\* stock_quantity > 0, and the page stops at 'no products available' only
\* when no product of the store has stock_quantity > 0.
C16_OfferedAreInStock ==
    \A s \in Sessions :
        wizard_step[s] >= 2 =>
            /\ ProdMap = {p \in Products : products[p].stock_quantity > 0}
            /\ ~ReachesStep2 => \A p \in Products : products[p].stock_quantity <= 0

\* C17: in every reachable state in which the wizard step of a session is
\* >= 3, whatever edits, removals and clears came before, its cart has at
\* least one line; and so has the cart of every session whose commit runs.
C17_CartNotEmptyPastS2 ==
    \A s \in Sessions :
        (wizard_step[s] >= 3 \/ pc[s] # "idle") => Len(cart[s]) >= 1

\* a commit runs after the session went back with an Edit button
C17_Witness ==
    \E s \in Sessions :
        /\ edits > 0
        /\ wizard_step[s] = 5 /\ pc[s] = "insert_item"
        /\ Len(cart[s]) >= 1

\* C18: a step of the wizard that raises the step of a session raises it by
\* exactly one; it leaves S1 only with a customer, an employee, a date and a
\* status captured and S2 only with a cart that has a line (S1 and S2 have
\* no skip), it leaves S3 and S4 with the payment and the transport either
\* captured or explicitly skipped; and in every state the session holds the
\* capture of every step below its step: in S5 the S1 capture, a cart with a
\* line, a payment decision and a transport decision.
C18_NoStepSkipped ==
    /\ [](\A s \in Sessions :
             /\ wizard_step[s] \in 1..5
             /\ wizard_step[s] >= 2 =>
                   /\ order_info[s].captured
                   /\ order_info[s].customer_id \in CustomerIds
                   /\ order_info[s].employee_id \in EmployeeIds
                   /\ order_info[s].order_date # "" /\ order_info[s].status # ""
             /\ wizard_step[s] >= 3 => cart[s] # <<>>
             /\ wizard_step[s] >= 4 => payment_info[s].captured
             /\ wizard_step[s] >= 5 => transport_info[s].captured)
    /\ [][\A s \in Sessions :
             wizard_step'[s] > wizard_step[s] =>
                 /\ wizard_step'[s] = wizard_step[s] + 1
                 /\ wizard_step[s] = 1 =>
                       order_info'[s].captured /\ order_info'[s].customer_id \in CustomerIds
                 /\ wizard_step[s] = 2 => cart'[s] # <<>> /\ cart'[s] = cart[s]
                 /\ wizard_step[s] = 3 => payment_info'[s].captured
                 /\ wizard_step[s] = 4 => transport_info'[s].captured]_vars

\* the session is in S5 after an Edit button, with payment skipped and
\* transport captured
C18_Witness ==
    \E s \in Sessions :
        /\ edits > 0
        /\ wizard_step[s] = 5
        /\ payment_info[s].captured /\ ~payment_info[s].make_payment
        /\ transport_info[s].captured /\ transport_info[s].add_transport

\* C19: a step that lowers the wizard step of a session leaves its S1
\* capture, its cart, its payment capture and its transport capture as they
\* were; and the data of a step changes only in that step: the S1 capture
\* only in the forward transition from S1, the cart only while the step is
\* 2, the payment capture only in the forward transition from S3, the
\* transport capture only in the forward transition from S4.
C19_EditChangesOnlyTheStep ==
    [][\A s \in Sessions :
          /\ wizard_step'[s] < wizard_step[s] =>
                /\ order_info'[s] = order_info[s]
                /\ cart'[s] = cart[s]
                /\ payment_info'[s] = payment_info[s]
                /\ transport_info'[s] = transport_info[s]
          /\ order_info'[s] # order_info[s] =>
                wizard_step[s] = 1 /\ wizard_step'[s] = 2
          /\ cart'[s] # cart[s] =>
                wizard_step[s] = 2 /\ wizard_step'[s] = 2
          /\ payment_info'[s] # payment_info[s] =>
                wizard_step[s] = 3 /\ wizard_step'[s] = 4
          /\ transport_info'[s] # transport_info[s] =>
                wizard_step[s] = 4 /\ wizard_step'[s] = 5]_vars

\* "Edit Step 1" has taken the session back from a later step, and the S1
\* capture, the cart and a payment and a transport capture are all held
C19_Witness ==
    \E s \in Sessions :
        /\ edits > 0
        /\ wizard_step[s] = 1
        /\ order_info[s].captured
        /\ Len(cart[s]) = 2
        /\ payment_info[s].make_payment
        /\ transport_info[s].add_transport

\* C20: when a session that holds the capture of S1 (of S3, of S4) is in
\* that step again and goes forward with the page submitted as it was drawn,
\* no field changed, the capture it then holds equals the one it held: the
\* same customer, employee, date and status; the same payment decision, date,
\* amount and mode; the same transport decision and fields.
C20_ReenteredStepIsPrefilled ==
    [][\A s \in Sessions :
          /\ ( /\ wizard_step[s] = 1 /\ wizard_step'[s] = 2
               /\ order_info[s].captured
               /\ order_info'[s] = [captured |-> TRUE,
                                    customer_id |-> OrderInfoDefault.customer_id,
                                    employee_id |-> OrderInfoDefault.employee_id,
                                    order_date |-> OrderInfoDefault.order_date,
                                    status |-> OrderInfoDefault.status] )
                => order_info'[s] = order_info[s]
          /\ ( /\ wizard_step[s] = 3 /\ wizard_step'[s] = 4
               /\ payment_info[s].captured
               /\ payment_info'[s] = [captured |-> TRUE, make_payment |-> TRUE,
                                      pay_date |-> PaymentDefault(s).pay_date,
                                      pay_amount |-> PaymentDefault(s).pay_amount,
                                      pay_mode |-> PaymentDefault(s).pay_mode] )
                => payment_info'[s] = payment_info[s]
          /\ ( /\ wizard_step[s] = 4 /\ wizard_step'[s] = 5
               /\ transport_info[s].captured
               /\ transport_info'[s] = [NoTransportInfo EXCEPT !.captured = TRUE] )
                => transport_info'[s] = transport_info[s]]_vars

\* C21: every step that changes a row of the store (products, orders,
\* order_items, payments, transportation, customers, employees) is a store
\* call of the running commit of a session whose step is 5; no continue,
\* skip, edit, add (accepted or rejected), remove or clear changes one.
C21_NothingPersistedBeforeS5 ==
    [][<<storeVars, customers, employees>>' # <<storeVars, customers, employees>> =>
          \E s \in Sessions : pc[s] # "idle" /\ wizard_step[s] = 5]_vars

\* the session has gone through S1 to S4 with an Edit button pressed, a
\* payment and a transport captured and two lines in the cart; no commit has
\* started and the store is as it was
C21_Witness ==
    \E s \in Sessions :
        /\ wizard_step[s] = 5 /\ pc[s] = "idle" /\ edits > 0
        /\ Len(cart[s]) = 2
        /\ payment_info[s].make_payment /\ transport_info[s].add_transport
        /\ orders = <<>> /\ order_items = <<>> /\ payments = <<>>
        /\ transportation = <<>>
        /\ \A p \in Products : products[p].stock_quantity = stock0[p]

\* C22: when the Order insert of a commit does not reach the store, that
\* step ends the commit with the failure message and changes no row; and
\* once the commit has ended so, the store holds no OrderItem, Payment or
\* Transportation row and no stock_quantity that it did not hold when the
\* commit started.
C22_OrderInsertFailureAborts ==
    /\ [][\A s \in Sessions :
             (pc[s] = "insert_order" /\ pc'[s] # "insert_order" /\ orders' = orders) =>
                 /\ pc'[s] = "idle"
                 /\ outcome'[s] = "no_order_id"
                 /\ storeVars' = storeVars]_vars
    /\ [](\A s \in Sessions :
             (pc[s] = "idle" /\ outcome[s] = "no_order_id") =>
                 /\ RowsSince(orders, before[s].orders) = <<>>
                 /\ RowsSince(order_items, before[s].order_items) = <<>>
                 /\ RowsSince(payments, before[s].payments) = <<>>
                 /\ RowsSince(transportation, before[s].transportation) = <<>>
                 /\ \A p \in Products :
                       products[p].stock_quantity = before[s].stock[p])

\* the Order insert of a commit failed; the cart has two lines and a
\* payment and a transportation were due
C22_Witness ==
    \E s \in Sessions :
        /\ pc[s] = "idle" /\ outcome[s] = "no_order_id" /\ failures > 0
        /\ Len(cart[s]) = 2
        /\ PaymentDue(s) /\ TransportDue(s)

\* C23: a call of execute_query that fails in the store gives its caller a
\* result that no successful call gives (the empty sequence is the result of
\* a query that found no row), and a table page shows 'Created
\* successfully.', 'Updated successfully.' or 'Deleted ...' only when the
\* mutation it asked for took effect.
C23_FailureIsDistinguishable ==
    /\ last_call.raised => last_call.result # <<>>
    /\ \A s \in Sessions :
          (last_call.session = s /\ outcome[s] \in {"created", "updated", "deleted"})
             => last_call.effect

\* C24: a delete of an existing row by identifier removes exactly that row:
\* a query for the identifier then returns the empty sequence and the other
\* rows of the table are as they were.
C24_DeleteRemovesTheRow ==
    [][(last_call'.operation = "delete" /\ last_call' # last_call /\ last_call'.found)
          => \A T \in Tables :
                T = last_call'.table =>
                   /\ SelectById(TableRows(T)', last_call'.id) = <<>>
                   /\ \A id \in RowIds(TableRows(T)) \ {last_call'.id} :
                         SelectById(TableRows(T)', id) = SelectById(TableRows(T), id)]_vars

\* C25: an update addressed to an identifier that no row of the table has
\* fails with an error and leaves the table as it was.
C25_UpdateOfMissingIdFails ==
    [][(last_call'.operation = "update" /\ last_call' # last_call /\ ~last_call'.found)
          => /\ last_call'.raised
             /\ customers' = customers /\ employees' = employees]_vars

\* C26: every Order references a customer and an employee of the store, and
\* every OrderItem, Payment and Transportation row an order (an OrderItem
\* also a product) of the store: an insert whose reference is absent or
\* names no row is rejected.
C26_ReferencesResolve ==
    LET OrderIds == {orders[i].order_id : i \in 1..Len(orders)} IN
    /\ \A i \in 1..Len(orders) :
          orders[i].customer_id \in CustomerIds /\ orders[i].employee_id \in EmployeeIds
    /\ \A i \in 1..Len(order_items) :
          order_items[i].order_id \in OrderIds /\ order_items[i].product_id \in Products
    /\ \A i \in 1..Len(payments) : payments[i].order_id \in OrderIds
    /\ \A i \in 1..Len(transportation) : transportation[i].order_id \in OrderIds

\* C28: the wizard is past S1 only if the store has a customer and an
\* employee, and the customer_id and employee_id captured on leaving S1 are
\* identifiers of rows of the lists.
C28_PastS1OnlyWithCustomerAndEmployee ==
    \A s \in Sessions :
       /\ wizard_step[s] >= 2 => customers # <<>> /\ employees # <<>>
       /\ order_info[s].captured =>
             /\ order_info[s].customer_id \in CustomerIds
             /\ order_info[s].employee_id \in EmployeeIds

\* a session left S1 with the second customer, which a table page created
\* after the first, in a store that started with no customer and no employee
C28_Witness ==
    \E s \in Sessions :
       /\ wizard_step[s] = 2 /\ order_info[s].captured
       /\ order_info[s].customer_id = 2
       /\ Len(customers) = 2 /\ Len(employees) = 1
       /\ orders = <<>>

\* C27: a read of order_items through the cache that did not fail returns the
\* rows the store holds: after a write of a commit, of a commit that then
\* stopped with an error too, no read returns rows older than the write.
C27_CachedReadIsCurrent ==
    [][\A s \in Sessions :
          (DashboardView(s) /\ ~last_call'.raised) => last_call'.result = order_items]_vars

\* C29: after a commit in which every write succeeded, the summary lists a
\* payment exactly if the commit inserted a Payment row, lists transportation
\* exactly if it inserted a Transportation row, and its number of items is
\* the number of OrderItem rows the commit inserted.
C29_SummaryIsTruthful ==
    \A s \in Sessions :
       (pc[s] = "idle" /\ outcome[s] = "success" /\ ~failed[s]) =>
          /\ SummaryPayment(s) <=> RowsSince(payments, before[s].payments) # <<>>
          /\ SummaryTransport(s) <=>
                RowsSince(transportation, before[s].transportation) # <<>>
          /\ SummaryItems(s) = Len(RowsSince(order_items, before[s].order_items))

\* C30: within a commit the Order insert comes first; the items are taken in
\* cart order, each with its OrderItem insert, then the read, then the write
\* of its product's stock, before the next item; the Payment insert comes
\* after the last item and the Transportation insert after the Payment's.
C30_WritesInFixedOrder ==
    [][/\ orders' # orders =>
             \E s \in Sessions : pc[s] = "insert_order" /\ pc'[s] # pc[s]
       /\ order_items' # order_items =>
             \E s \in Sessions :
                /\ pc[s] = "insert_item" /\ pc'[s] # pc[s]
                /\ order_items' =
                      Append(order_items, ItemData(order_id[s], cart[s][item_idx[s]]))
       /\ products' # products =>
             \E s \in Sessions :
                /\ pc[s] = "update_stock" /\ pc'[s] # pc[s]
                /\ \A p \in Products \ {cart[s][item_idx[s]].product_id} :
                      products'[p] = products[p]
       /\ payments' # payments =>
             \E s \in Sessions : pc[s] = "insert_payment" /\ pc'[s] # pc[s]
       /\ transportation' # transportation =>
             \E s \in Sessions : pc[s] = "insert_transportation" /\ pc'[s] # pc[s]
       /\ \A s \in Sessions :
          /\ (pc[s] = "insert_order" /\ pc'[s] \notin {"insert_order", "idle"}) =>
                pc'[s] = "insert_item" /\ item_idx'[s] = 1
          /\ (pc[s] = "insert_item" /\ pc'[s] # "insert_item") =>
                pc'[s] = "select_product" /\ item_idx'[s] = item_idx[s]
          /\ (pc[s] = "select_product" /\ pc'[s] \notin {"select_product", "idle"}) =>
                /\ pc'[s] = "update_stock" /\ item_idx'[s] = item_idx[s]
                /\ current_product'[s] =
                      products[cart[s][item_idx[s]].product_id].stock_quantity
          /\ (pc[s] = "update_stock" /\ pc'[s] # "update_stock") =>
                IF item_idx[s] < Len(cart[s])
                THEN pc'[s] = "insert_item" /\ item_idx'[s] = item_idx[s] + 1
                ELSE pc'[s] = "insert_payment"
          /\ (pc[s] = "insert_payment" /\ pc'[s] # "insert_payment") =>
                pc'[s] = "insert_transportation"
          /\ (pc[s] = "insert_transportation" /\ pc'[s] # "insert_transportation") =>
                pc'[s] = "idle" ]_vars

\* a commit of a cart of two lines ended with every write done: two
\* OrderItem rows in cart order, a Payment row and a Transportation row
C30_Witness ==
    \E s \in Sessions :
       /\ pc[s] = "idle" /\ outcome[s] = "success" /\ ~failed[s]
       /\ Len(cart[s]) = 2
       /\ LET items == RowsSince(order_items, before[s].order_items) IN
             /\ Len(items) = 2
             /\ \A i \in 1..2 : items[i].product_id = cart[s][i].product_id
       /\ Len(RowsSince(payments, before[s].payments)) = 1
       /\ Len(RowsSince(transportation, before[s].transportation)) = 1
       /\ \A p \in Products : products[p].stock_quantity < stock0[p]

\* a click or a call that takes the session's saga further: to the next step,
\* to a cart with another unit, or to the next call of its commit
Advance(s) ==
    /\ ForwardWidgets(s) \/ CommitCallsReachStore(s)
    /\ \/ wizard_step'[s] > wizard_step[s]
       \/ SumQuantity(cart'[s]) > SumQuantity(cart[s])
       \/ pc'[s] # pc[s]

\* C31: while the store holds a customer, an employee and a product with
\* stock_quantity > 0, a session that has not committed its order yet can go
\* on: from a fresh S1 every way forward leads to S5 and a committed Order.
C31_CommitIsReachable ==
    \A s \in Sessions :
       ( /\ customers # <<>> /\ employees # <<>>
         /\ \E p \in Products : products[p].stock_quantity > 0
         /\ orders = <<>> )
       => ENABLED Advance(s)

\* C32: every line of a cart has quantity >= 1 and line_total = quantity x
\* unit_price, and a line keeps the unit_price it was added with: an add of a
\* product that has a line, at whatever price, changes the line's quantity
\* and line_total and not its unit_price.
C32_LineTotalAndFirstPrice ==
    /\ [](\A s \in Sessions : \A i \in 1..Len(cart[s]) :
             /\ cart[s][i].quantity >= 1
             /\ cart[s][i].line_total = cart[s][i].quantity * cart[s][i].unit_price)
    /\ [][\A s \in Sessions : \A i \in 1..Len(cart[s]) : \A j \in 1..Len(cart'[s]) :
             cart'[s][j].product_id = cart[s][i].product_id
                => cart'[s][j].unit_price = cart[s][i].unit_price]_vars

\* the form was submitted at a price other than the one of the product's
\* line, and the line now holds more units than the form added
C32_Witness ==
    \E s \in Sessions : \E i \in 1..Len(cart[s]) :
       /\ last_add[s].accepted /\ last_add[s].in_cart >= 1
       /\ cart[s][i].product_id = last_add[s].pid
       /\ cart[s][i].unit_price # last_add[s].price
       /\ cart[s][i].quantity = last_add[s].in_cart + last_add[s].quantity
       /\ cart[s][i].line_total = cart[s][i].quantity * cart[s][i].unit_price

RECURSIVE SumAt(_, _)
\* the line totals of the lines at the indexes, added up in any order
SumAt(c, idx) ==
    IF idx = {} THEN 0
    ELSE LET i == CHOOSE k \in idx : TRUE IN c[i].line_total + SumAt(c, idx \ {i})

\* C34: the remove button of line i takes exactly that line out of the cart,
\* the other lines staying as they are and in their order; "Clear Cart"
\* leaves the cart empty; an add refused for exceeding the stock leaves the
\* cart as it is; and the cart total shown is the sum of the line totals of
\* the lines of the cart.
C34_CartFrame ==
    /\ [](\A s \in Sessions : OrderTotal(s) = SumAt(cart[s], 1..Len(cart[s])))
    /\ [][\A s \in Sessions :
             /\ \A i \in 1..MaxCartLen :
                   RemoveItem(s, i) =>
                      /\ Len(cart'[s]) = Len(cart[s]) - 1
                      /\ \A j \in 1..(i - 1) : cart'[s][j] = cart[s][j]
                      /\ \A j \in i..Len(cart'[s]) : cart'[s][j] = cart[s][j + 1]
             /\ ClearCart(s) => cart'[s] = <<>>
             /\ (wizard_step[s] = 2 /\ last_add'[s] # NoAdd /\ ~last_add'[s].accepted)
                   => cart'[s] = cart[s]]_vars

\* a line was removed from a cart of two: the cart holds the line of the
\* second product alone and the last rerun was no add
C34_Witness ==
    \E s \in Sessions :
       /\ wizard_step[s] = 2 /\ last_add[s] = NoAdd
       /\ Len(cart[s]) = 1 /\ cart[s][1].product_id = 2
       /\ OrderTotal(s) = cart[s][1].line_total

\* C33: a cart never holds more than 10 lines, whatever adds, removes and
\* clears the session makes.
C33_AtMostTenLines ==
    \A s \in Sessions : Len(cart[s]) <= 10


\* C37: a password verifies against every hash hash_password makes of it, and
\* an active user with a username of its own authenticates with the password
\* User Management was given for it and with no other.
C37_PasswordRoundTrip ==
    /\ \A password \in Passwords, salt \in Salts :
          VerifyPassword(password, HashPassword(password, salt))
    /\ \A i \in 1..Len(users) :
          (/\ users[i].is_active
           /\ \A j \in 1..Len(users) : users[j].username = users[i].username => j = i)
          => \A password \in Passwords :
                AuthenticateUser(users[i].username, password, TRUE) = users[i]
                   <=> password = users[i].given

====
